---- MODULE Spec2Model ----
(***************************************************************************)
(* Identity-document processing (minardiunimar/hackatonaws).               *)
(*                                                                         *)
(* The specifications:                                                     *)
(*   SpecCPF    CPFValidator.clean_cpf / validate_cpf                       *)
(*   SpecText   extract_information_from_text on texts built line by line   *)
(*   SpecDoc    text / forms extraction and the merge of process_document   *)
(*   SpecPhoto  the photo search of detect_best_photo_or_fallback           *)
(*   SpecType   identify_document_type                                      *)
(*   SpecRun    process_document from the file to the record returned       *)
(*   SpecFace   the cascades, remove_duplicate_faces, detect_faces_advanced *)
(*   SpecName   the acceptance of a captured name                           *)
(*   SpecClean  clean_cpf of two of the validators                          *)
(*   SpecEmbed  extract_images_from_pdf                                     *)
(*   SpecMem    the raster buffers held by the photo block                  *)
(*   SpecPure   classification and extraction as read-only functions        *)
(*   SpecScan   the unlabelled scan of extract_information_from_text        *)
(*   SpecDedup  remove_duplicate_faces on lists of rectangles               *)
(*   SpecCrop   crop_face_3x4                                               *)
(*   SpecUpload sanitize_result and /upload                                 *)
(*   SpecBest   detect_best_photo, image by image                           *)
(*   SpecRobust extract_text_robust and the start of process_document       *)
(*                                                                         *)
(* A Python str is a sequence of one-character strings, except for the     *)
(* keys and values of the dictionaries of SpecUpload.                      *)
(***************************************************************************)
EXTENDS Integers, Sequences, FiniteSets, TLC

VARIABLES
    cpf_in,      \* SpecCPF: the string handed to validate_cpf
    cpf_out,     \* SpecCPF: "unset", or the outcome of validate_cpf(cpf_in)
    cpf_prev,    \* SpecCPF: the string validated before the last alteration
    prev_out,    \* SpecCPF: the outcome validate_cpf gave for cpf_prev
    ocr_text,    \* the text the OCR gave for the document
    form_pairs,  \* the key-value pairs of the form analysis, in dict order
    processor,   \* "none", or the processor whose process_document has run
    info_text,   \* process_document: what the text extraction returned
    info_forms,  \* process_document: what the structured data gave
    result,      \* process_document: the record returned
    embedded_images,   \* the list extract_images_from_pdf returns
    pdf_pages,         \* the pages of the PDF, as the renderer finds them
    photo_pc,          \* "idle", or "done" once process_document has searched
    photo_calls,       \* the calls the photo search made, in order
    best_image,        \* process_document: best_image
    extraction_method, \* process_document: extraction_method
    photo_path,        \* process_document: the image saved, or NoImage
    photo_error,       \* process_document: "except Exception as photo_error" ran
    doc_type,          \* "unset", or what identify_document_type returned
    classifier,        \* "none", or the processor whose identify_document_type ran
    pdf_state,         \* SpecRun: "ok", or "missing" when pdf_path does not exist
    ocr_fails,         \* SpecRun: the Textract call raises
    output_dir_ok,     \* SpecRun: os.makedirs(output_dir) succeeds
    run,               \* SpecRun: how the call of process_document ended
    cascade_hits,      \* SpecFace: what the cascades find on the variants of an image
    face_candidates,   \* SpecFace: NoCandidates, or what detect_faces_advanced returned
    clean_out,         \* SpecClean: NotCleaned, or what clean_cpf(cpf_in) returned
    doc_embedded,      \* SpecEmbed: the embedded images of the PDF, page by page
    extracted,         \* SpecEmbed: NotExtracted, or what extract_images_from_pdf did
    mem_proc,          \* SpecMem: "none", or the processor whose photo block runs
    mem_pc,            \* SpecMem: the position reached in the photo block
    held_embedded,     \* SpecMem: embedded images still referenced
    held_rendered,     \* SpecMem: rendered pages still referenced
    mem_page,          \* SpecMem: pages the running loop has rendered
    mem_faces,         \* SpecMem: len(faces) of the running loop
    mem_found,         \* SpecMem: a photo has been found
    tables,            \* SpecPure: document_patterns and info_patterns of the processor
    pure_calls,        \* SpecPure: how often each of the three functions was called
    first_results,     \* SpecPure: what the first call of each function returned
    faces_in,          \* SpecDedup: the list handed to remove_duplicate_faces
    unique_out,        \* SpecDedup: NotDeduped, or what remove_duplicate_faces returned
    crop_in,           \* SpecCrop: the image size and the region handed to crop_face_3x4
    crop_out,          \* SpecCrop: NotCropped, or what crop_face_3x4 cut out
    up_app,            \* SpecUpload: "improved" (app_improved.py) or "real" (app_real.py)
    up_result,         \* SpecUpload: what process_document returned, for two requests
    up_shown,          \* SpecUpload: per request NotSent, or what /upload sent back
    bp_images,         \* SpecBest: the images detect_best_photo has gone through
    bp_photo,          \* SpecBest: best_photo of detect_best_photo
    bp_score,          \* SpecBest: best_score of detect_best_photo
    bp_returned,       \* SpecBest: NotReturned, or what detect_best_photo returned
    rb_pdf,            \* SpecRobust: the PDF and what each strategy reads from it
    rb_pc,             \* SpecRobust: where process_document of the robust processor is
    rb_calls,          \* SpecRobust: the strategies invoked, in order
    rb_text,           \* SpecRobust: NoTextYet, or what extract_text_robust returned
    rb_result          \* SpecRobust: NoResultYet, or what process_document returned

cpfVars == <<cpf_in, cpf_out, cpf_prev, prev_out>>

docVars == <<ocr_text, form_pairs, processor, info_text, info_forms, result>>

photoVars == <<embedded_images, pdf_pages, photo_pc, photo_calls, best_image,
               extraction_method, photo_path, photo_error>>

typeVars == <<doc_type, classifier>>

runVars == <<pdf_state, ocr_fails, output_dir_ok, run>>

faceVars == <<cascade_hits, face_candidates>>

cleanVars == <<clean_out>>

embedVars == <<doc_embedded, extracted>>

memVars == <<mem_proc, mem_pc, held_embedded, held_rendered, mem_page, mem_faces,
             mem_found>>

\* the variables of the specifications before SpecMem
earlyVars == <<cpfVars, docVars, photoVars, typeVars, runVars, faceVars, cleanVars,
               embedVars>>

pureVars == <<tables, pure_calls, first_results>>

dedupVars == <<faces_in, unique_out>>

cropVars == <<crop_in, crop_out>>

uploadVars == <<up_app, up_result, up_shown>>

bestVars == <<bp_images, bp_photo, bp_score, bp_returned>>

robustVars == <<rb_pdf, rb_pc, rb_calls, rb_text, rb_result>>

\* the variables of SpecMem and of the specifications after it
lateVars == <<memVars, pureVars, dedupVars, cropVars, uploadVars, bestVars, robustVars>>

lateButMem == <<pureVars, dedupVars, cropVars, uploadVars, bestVars, robustVars>>

lateButPure == <<memVars, dedupVars, cropVars, uploadVars, bestVars, robustVars>>

lateButDedup == <<memVars, pureVars, cropVars, uploadVars, bestVars, robustVars>>

lateButCrop == <<memVars, pureVars, dedupVars, uploadVars, bestVars, robustVars>>

lateButUpload == <<memVars, pureVars, dedupVars, cropVars, bestVars, robustVars>>

lateButBest == <<memVars, pureVars, dedupVars, cropVars, uploadVars, robustVars>>

lateButRobust == <<memVars, pureVars, dedupVars, cropVars, uploadVars, bestVars>>

vars == <<cpf_in, cpf_out, cpf_prev, prev_out, ocr_text, form_pairs,
          processor, info_text, info_forms, result,
          embedded_images, pdf_pages, photo_pc, photo_calls, best_image,
          extraction_method, photo_path, photo_error, doc_type, classifier,
          pdf_state, ocr_fails, output_dir_ok, run, cascade_hits, face_candidates,
          clean_out, doc_embedded, extracted, lateVars>>

----------------------------------------------------------------------------
(* Characters *)

Digits == {"0", "1", "2", "3", "4", "5", "6", "7", "8", "9"}

DigitChars == <<"0", "1", "2", "3", "4", "5", "6", "7", "8", "9">>

\* int(c) for a digit character
IntOf(c) == CHOOSE n \in 0..9 : DigitChars[n + 1] = c

\* str(n) for 0 <= n <= 9
StrOf(n) == DigitChars[n + 1]

\* s[a:b] of Python, with 0-based a and exclusive b, clipped to the string
Slice(s, a, b) == SubSeq(s, a + 1, IF b > Len(s) THEN Len(s) ELSE b)

----------------------------------------------------------------------------
(* CPFValidator *)

\* re.sub(r'[^0-9]', '', cpf)
clean_cpf(cpf) == SelectSeq(cpf, LAMBDA c : c \in Digits)

\* sum(int(cpf[i]) * (w - i) for i in range(n)), i counted from 0
RECURSIVE WeightedSum(_, _, _)
WeightedSum(cpf, w, n) ==
    IF n = 0 THEN 0
    ELSE WeightedSum(cpf, w, n - 1) + IntOf(cpf[n]) * (w - (n - 1))

\* digit = 11 - (sum % 11); if digit >= 10: digit = 0
CheckDigit(sum) ==
    LET digit == 11 - (sum % 11)
    IN  IF digit >= 10 THEN 0 ELSE digit

\* cpf == cpf[0] * 11
AllEqualFirst(cpf) == \A i \in 1..Len(cpf) : cpf[i] = cpf[1]

\* The body of validate_cpf after the length test.  Indexing a str past its
\* end raises IndexError in Python: the outcome is then "IndexError".
check_digits_outcome(cpf) ==
    IF Len(cpf) < 11 THEN "IndexError"
    ELSE LET digit1 == CheckDigit(WeightedSum(cpf, 10, 9))
             digit2 == CheckDigit(WeightedSum(cpf, 11, 10))
         IN  IF cpf[10] = StrOf(digit1) /\ cpf[11] = StrOf(digit2)
             THEN "True" ELSE "False"

\* validate_cpf after the length test, without its identical-digits test
validate_digits_nosame(cpf) == check_digits_outcome(cpf)

\* validate_cpf after the length test
validate_digits(cpf) ==
    IF Len(cpf) < 1 THEN "IndexError"
    ELSE IF Len(cpf) = 11 /\ AllEqualFirst(cpf) THEN "False"
    ELSE check_digits_outcome(cpf)

\* validate_cpf without its length test
validate_outcome_nolen(s) == validate_digits(clean_cpf(s))

\* CPFValidator.validate_cpf: "True", "False", or the exception raised
validate_outcome(s) ==
    LET cpf == clean_cpf(s)
    IN  IF Len(cpf) # 11 THEN "False" ELSE validate_digits(cpf)

validate_cpf(s) == validate_outcome(s) = "True"

----------------------------------------------------------------------------
(* Python str helpers.  An accented letter is one character written with a  *)
(* trailing mark: "a~" is the lower-case a with tilde, "A~" its capital,    *)
(* "i^", "u^", "e^" the lower-case i, u, e with acute accent, "o~" the o    *)
(* with tilde, "c," the c with cedilla.                                     *)

UpperSeq ==
    <<"A", "B", "C", "D", "E", "F", "G", "H", "I", "J", "K", "L", "M", "N",
      "O", "P", "Q", "R", "S", "T", "U", "V", "W", "X", "Y", "Z", "A~", "I^",
      "U^", "C,", "E^", "O~">>

LowerSeq ==
    <<"a", "b", "c", "d", "e", "f", "g", "h", "i", "j", "k", "l", "m", "n",
      "o", "p", "q", "r", "s", "t", "u", "v", "w", "x", "y", "z", "a~", "i^",
      "u^", "c,", "e^", "o~">>

UpperSet == {UpperSeq[i] : i \in 1..Len(UpperSeq)}

LowerSet == {LowerSeq[i] : i \in 1..Len(LowerSeq)}

\* c.lower()
LowerChar(c) ==
    IF c \in UpperSet
    THEN LowerSeq[CHOOSE i \in 1..Len(UpperSeq) : UpperSeq[i] = c]
    ELSE c

\* c.upper()
UpperChar(c) ==
    IF c \in LowerSet
    THEN UpperSeq[CHOOSE i \in 1..Len(LowerSeq) : LowerSeq[i] = c]
    ELSE c

\* s.lower()
Lower(s) == [i \in 1..Len(s) |-> LowerChar(s[i])]

\* \s
WS == {" ", "\n"}

\* \w
WordChars == Digits \cup LowerSet \cup UpperSet \cup {"_"}

\* s in t (substring test)
Contains(t, s) ==
    \E i \in 1..(Len(t) - Len(s) + 1) : SubSeq(t, i, i + Len(s) - 1) = s

\* t.find(s): the 0-based index of the first occurrence, -1 when absent
Find(t, s) ==
    IF Contains(t, s)
    THEN (CHOOSE i \in 1..(Len(t) - Len(s) + 1) :
             /\ SubSeq(t, i, i + Len(s) - 1) = s
             /\ \A j \in 1..(i - 1) : SubSeq(t, j, j + Len(s) - 1) # s) - 1
    ELSE -1

\* s.strip()
RECURSIVE LStrip(_)
LStrip(s) == IF s # <<>> /\ Head(s) \in WS THEN LStrip(Tail(s)) ELSE s

RECURSIVE RStrip(_)
RStrip(s) ==
    IF s # <<>> /\ s[Len(s)] \in WS THEN RStrip(SubSeq(s, 1, Len(s) - 1)) ELSE s

Strip(s) == RStrip(LStrip(s))

\* the length of the first word of s (s starts with a non-blank character)
RECURSIVE WordLen(_, _)
WordLen(s, n) == IF n < Len(s) /\ s[n + 1] \notin WS THEN WordLen(s, n + 1) ELSE n

\* ' '.join(s.split())
RECURSIVE JoinSplit(_)
JoinSplit(s) ==
    LET t == LStrip(s)
    IN  IF t = <<>> THEN <<>>
        ELSE LET n == WordLen(t, 0)
                 rest == JoinSplit(SubSeq(t, n + 1, Len(t)))
             IN  IF rest = <<>> THEN SubSeq(t, 1, n)
                 ELSE SubSeq(t, 1, n) \o <<" ">> \o rest

\* s.title(): a cased character is capitalised after an uncased one and
\* lower-cased after a cased one
Title(s) ==
    [i \in 1..Len(s) |->
        IF i > 1 /\ s[i - 1] \in (LowerSet \cup UpperSet)
        THEN LowerChar(s[i]) ELSE UpperChar(s[i])]

\* the digits handed back as they are
format_cpf_bare(cpf) == cpf

\* the check digits after a dot
format_cpf_dotted(cpf) ==
    Slice(cpf, 0, 3) \o <<".">> \o Slice(cpf, 3, 6) \o <<".">>
        \o Slice(cpf, 6, 9) \o <<".">> \o Slice(cpf, 9, Len(cpf))

\* f"{cpf[:3]}.{cpf[3:6]}.{cpf[6:9]}-{cpf[9:]}"
format_cpf(cpf) ==
    Slice(cpf, 0, 3) \o <<".">> \o Slice(cpf, 3, 6) \o <<".">>
        \o Slice(cpf, 6, 9) \o <<"-">> \o Slice(cpf, 9, Len(cpf))

----------------------------------------------------------------------------
(* Regular expressions (Python re), as far as the pattern tables use them.  *)
(* A pattern is a sequence of atoms, each a character class with a greedy   *)
(* repetition min..max (max = -1: unbounded) or an assertion (\b, ^, $),    *)
(* with one capturing group spanning the atoms gs..ge.  ic is               *)
(* re.IGNORECASE: the classes are then written in lower case.               *)

Cls(S, lo, hi) == <<[kind |-> "c", set |-> S, min |-> lo, max |-> hi]>>

Lit(str) == [i \in 1..Len(str) |-> [kind |-> "c", set |-> {str[i]}, min |-> 1, max |-> 1]]

WordB == <<[kind |-> "b", set |-> {}, min |-> 0, max |-> 0]>>

\* ^ and $ under re.MULTILINE
LineStart == <<[kind |-> "bol", set |-> {}, min |-> 0, max |-> 0]>>

LineEnd == <<[kind |-> "eol", set |-> {}, min |-> 0, max |-> 0]>>

Pat(pre, grp, post, ic) ==
    [atoms |-> pre \o grp \o post, gs |-> Len(pre) + 1, ge |-> Len(pre) + Len(grp), ic |-> ic]

CharOK(t, i, a, ic) ==
    /\ i <= Len(t)
    /\ (IF ic THEN LowerChar(t[i]) ELSE t[i]) \in a.set

\* how many characters from position i on the atom can take
RECURSIVE Run(_, _, _, _, _)
Run(t, i, a, ic, n) ==
    IF (a.max # -1 /\ n >= a.max) \/ ~CharOK(t, i + n, a, ic) THEN n
    ELSE Run(t, i, a, ic, n + 1)

IsWordAt(t, i) == i >= 1 /\ i <= Len(t) /\ t[i] \in WordChars

Boundary(t, i) == IsWordAt(t, i - 1) # IsWordAt(t, i)

\* whether the zero-width atom a holds at position i
AssertOK(t, i, a) ==
    CASE a.kind = "b" -> Boundary(t, i)
      [] a.kind = "bol" -> i = 1 \/ t[i - 1] = "\n"
      [] a.kind = "eol" -> i = Len(t) + 1 \/ t[i] = "\n"

\* The match of atoms k.. at position i, by backtracking, longest
\* repetition first: the start of every atom followed by the end of the
\* match, or <<>> when there is none.
RECURSIVE MatchFrom(_, _, _, _), TryCount(_, _, _, _, _)
MatchFrom(t, i, p, k) ==
    IF k > Len(p.atoms) THEN <<i>>
    ELSE IF p.atoms[k].kind # "c"
         THEN IF AssertOK(t, i, p.atoms[k])
              THEN LET r == MatchFrom(t, i, p, k + 1)
                   IN  IF r = <<>> THEN <<>> ELSE <<i>> \o r
              ELSE <<>>
         ELSE TryCount(t, i, p, k, Run(t, i, p.atoms[k], p.ic, 0))

TryCount(t, i, p, k, n) ==
    IF n < p.atoms[k].min THEN <<>>
    ELSE LET r == MatchFrom(t, i + n, p, k + 1)
         IN  IF r # <<>> THEN <<i>> \o r ELSE TryCount(t, i, p, k, n - 1)

\* match.group(1)
Group(t, p, r) == SubSeq(t, r[p.gs], r[p.ge + 1] - 1)

\* the least element of a non-empty set of integers
MinOf(S) == CHOOSE x \in S : \A y \in S : x <= y

\* the positions from i on at which the pattern matches
MatchStarts(t, p, i) == { j \in i..Len(t) : MatchFrom(t, j, p, 1) # <<>> }

\* re.findall(p, t): group 1 of the non-overlapping matches, left to right
RECURSIVE FindAllFrom(_, _, _)
FindAllFrom(t, p, i) ==
    LET starts == MatchStarts(t, p, i)
    IN  IF starts = {} THEN <<>>
        ELSE LET j == MinOf(starts)
                 r == MatchFrom(t, j, p, 1)
             IN  <<Group(t, p, r)>>
                     \o FindAllFrom(t, p, IF r[Len(r)] > j THEN r[Len(r)] ELSE j + 1)

FindAll(t, p) == FindAllFrom(t, p, 1)

\* re.search(p, t): <<group 1>> of the first match, <<>> when there is none
Search(t, p) ==
    LET starts == MatchStarts(t, p, 1)
    IN  IF starts = {} THEN <<>>
        ELSE <<Group(t, p, MatchFrom(t, MinOf(starts), p, 1))>>

----------------------------------------------------------------------------
(* DocumentProcessorTextract.info_patterns *)

\* \s*:?\s*
SepColon == Cls(WS, 0, -1) \o Cls({":"}, 0, 1) \o Cls(WS, 0, -1)

\* \s+
SepSpace == Cls(WS, 1, -1)

\* \s*[:\-]?\s*
SepDash == Cls(WS, 0, -1) \o Cls({":", "-"}, 0, 1) \o Cls(WS, 0, -1)

\* \s*\n\s*
SepBreak == Cls(WS, 0, -1) \o Cls({"\n"}, 1, 1) \o Cls(WS, 0, -1)

\* \d{3}\.?\d{3}\.?\d{3}-?\d{2}
FmtGroup ==
    Cls(Digits, 3, 3) \o Cls({"."}, 0, 1) \o Cls(Digits, 3, 3) \o Cls({"."}, 0, 1)
        \o Cls(Digits, 3, 3) \o Cls({"-"}, 0, 1) \o Cls(Digits, 2, 2)

\* \d{3}[\.\s]?\d{3}[\.\s]?\d{3}[\-\s]?\d{2}
FlexGroup ==
    Cls(Digits, 3, 3) \o Cls({"."} \cup WS, 0, 1) \o Cls(Digits, 3, 3)
        \o Cls({"."} \cup WS, 0, 1) \o Cls(Digits, 3, 3)
        \o Cls({"-"} \cup WS, 0, 1) \o Cls(Digits, 2, 2)

\* \d{11}
BareGroup == Cls(Digits, 11, 11)

L_cpf == Lit(<<"c", "p", "f">>)

L_c_p_f == Lit(<<"c", ".", "p", ".", "f">>)

\* cadastro\s+de\s+pessoa\s+f(i acute)sica
L_cadastro ==
    Lit(<<"c", "a", "d", "a", "s", "t", "r", "o">>) \o SepSpace \o Lit(<<"d", "e">>)
        \o SepSpace \o Lit(<<"p", "e", "s", "s", "o", "a">>) \o SepSpace
        \o Lit(<<"f", "i^", "s", "i", "c", "a">>)

\* info_patterns['cpf']
cpf_patterns ==
    << Pat(L_cpf \o SepColon, FmtGroup, <<>>, TRUE),
       Pat(L_cpf \o SepColon, BareGroup, <<>>, TRUE),
       Pat(L_cpf \o SepSpace, FmtGroup, <<>>, TRUE),
       Pat(L_cpf \o SepSpace, BareGroup, <<>>, TRUE),
       Pat(L_c_p_f \o SepColon, FmtGroup, <<>>, TRUE),
       Pat(L_c_p_f \o SepColon, BareGroup, <<>>, TRUE),
       Pat(L_cadastro \o SepColon, FmtGroup, <<>>, TRUE),
       Pat(L_cadastro \o SepColon, BareGroup, <<>>, TRUE),
       Pat(L_cpf \o SepDash, FlexGroup, <<>>, TRUE),
       Pat(L_c_p_f \o SepDash, FlexGroup, <<>>, TRUE) >>

\* cpf_direct_patterns of extract_information_from_text
cpf_direct_patterns ==
    << Pat(L_cpf \o SepSpace, FmtGroup, <<>>, TRUE),
       Pat(L_cpf \o SepSpace, BareGroup, <<>>, TRUE),
       Pat(L_cpf \o Cls(WS, 0, -1), FmtGroup, <<>>, TRUE),
       Pat(L_cpf \o Cls(WS, 0, -1), BareGroup, <<>>, TRUE),
       Pat(L_cpf \o SepBreak, FmtGroup, <<>>, TRUE),
       Pat(L_cpf \o SepBreak, BareGroup, <<>>, TRUE) >>

\* generic_patterns of extract_information_from_text (no flags)
generic_patterns ==
    << Pat(WordB, FmtGroup, WordB, FALSE),
       Pat(WordB, BareGroup, WordB, FALSE) >>

\* info_patterns['nis_pis_pasep']
nis_patterns ==
    << Pat(Lit(<<"n", "i", "s">>) \o SepColon, BareGroup, <<>>, TRUE),
       Pat(Lit(<<"p", "i", "s">>) \o SepColon, BareGroup, <<>>, TRUE),
       Pat(Lit(<<"p", "a", "s", "e", "p">>) \o SepColon, BareGroup, <<>>, TRUE),
       Pat(Lit(<<"n", "i", "s", "/", "p", "i", "s", "/", "p", "a", "s", "e", "p">>)
               \o SepColon, BareGroup, <<>>, TRUE),
       Pat(Lit(<<"p", "i", "s", "/", "p", "a", "s", "e", "p">>) \o SepColon,
           BareGroup, <<>>, TRUE) >>

\* [A-Z...] and [A-Za-z...\s] of info_patterns['nome'] under re.IGNORECASE
NameFirst == LowerSet

NameRest == LowerSet \cup WS

NameGroup == Cls(NameFirst, 1, 1) \o Cls(NameRest, 1, -1)

\* info_patterns['nome']
nome_patterns ==
    << Pat(Lit(<<"n", "o", "m", "e">>) \o SepColon, NameGroup, <<>>, TRUE),
       Pat(Lit(<<"n", "a", "m", "e">>) \o SepColon, NameGroup, <<>>, TRUE),
       Pat(Lit(<<"t", "i", "t", "u", "l", "a", "r">>) \o SepColon, NameGroup, <<>>, TRUE),
       Pat(LineStart, Cls(NameFirst, 1, 1) \o Cls(NameRest, 10, -1), LineEnd, TRUE) >>

\* \d+\.?\d*\.?\d*-?\d*
RgGroup ==
    Cls(Digits, 1, -1) \o Cls({"."}, 0, 1) \o Cls(Digits, 0, -1) \o Cls({"."}, 0, 1)
        \o Cls(Digits, 0, -1) \o Cls({"-"}, 0, 1) \o Cls(Digits, 0, -1)

\* info_patterns['rg']
rg_patterns ==
    << Pat(Lit(<<"r", "g">>) \o SepColon, RgGroup, <<>>, TRUE),
       Pat(Lit(<<"r", "e", "g", "i", "s", "t", "r", "o">>) \o SepColon, RgGroup, <<>>, TRUE),
       Pat(Lit(<<"i", "d", "e", "n", "t", "i", "d", "a", "d", "e">>) \o SepColon,
           RgGroup, <<>>, TRUE) >>

----------------------------------------------------------------------------
(* DocumentProcessorTextract.extract_information_from_text *)

\* x in l, for a list l
InList(x, l) == \E i \in 1..Len(l) : l[i] = x

\* the matches of every pattern of a table, in table order (list.extend)
RECURSIVE FindAllOf(_, _, _)
FindAllOf(t, pats, k) ==
    IF k > Len(pats) THEN <<>>
    ELSE FindAll(t, pats[k]) \o FindAllOf(t, pats, k + 1)

\* nis_pis_numbers
nis_pis_numbers_of(text) == FindAllOf(text, nis_patterns, 1)

\* the test without the look-up in nis_pis_numbers
cpf_accepted_ignoring_nis(cpf_clean, nis) ==
    /\ Len(cpf_clean) = 11
    /\ validate_cpf(cpf_clean)

\* the test a match passes in the label-anchored and the direct pass
cpf_accepted(cpf_clean, nis) ==
    /\ Len(cpf_clean) = 11
    /\ ~InList(cpf_clean, nis)
    /\ validate_cpf(cpf_clean)

\* the candidates one pass over a pattern table appends
labelled_candidates(text, pats, nis) ==
    LET ms == FindAllOf(text, pats, 1)
        cleaned == [i \in 1..Len(ms) |-> clean_cpf(ms[i])]
    IN  SelectSeq(cleaned, LAMBDA c : cpf_accepted(c, nis))

context_window == 50

cpf_indicators ==
    { <<"c", "p", "f">>, <<"c", ".", "p", ".", "f">>,
      <<"c", "a", "d", "a", "s", "t", "r", "o">>, <<"p", "e", "s", "s", "o", "a">>,
      <<"f", "i^", "s", "i", "c", "a">> }

nis_indicators == { <<"n", "i", "s">>, <<"p", "i", "s">>, <<"p", "a", "s", "e", "p">> }

\* context_before + context_after around the first occurrence of match
context_of(text, match) ==
    LET match_pos == Find(text, match)
        lo == IF match_pos - context_window > 0 THEN match_pos - context_window ELSE 0
    IN  Lower(Slice(text, lo, match_pos))
            \o Lower(Slice(text, match_pos, match_pos + Len(match) + context_window))

has_cpf_context(text, match) ==
    \E ind \in cpf_indicators : Contains(context_of(text, match), ind)

has_nis_context(text, match) ==
    \E ind \in nis_indicators : Contains(context_of(text, match), ind)

\* the unanchored scan: cpf_candidates after the matches j.. of the generic
\* patterns, acc being cpf_candidates before them
RECURSIVE generic_candidates(_, _, _, _, _)
generic_candidates(text, ms, nis, j, acc) ==
    IF j > Len(ms) THEN acc
    ELSE LET cpf_clean == clean_cpf(ms[j])
             take ==
                 /\ cpf_accepted(cpf_clean, nis)
                 /\ \/ has_cpf_context(text, ms[j]) /\ ~has_nis_context(text, ms[j])
                    \/ ~has_nis_context(text, ms[j]) /\ acc = <<>>
         IN  generic_candidates(text, ms, nis, j + 1,
                                IF take THEN Append(acc, cpf_clean) ELSE acc)

\* cpf_candidates at the end of the three passes
cpf_candidates_of(text) ==
    LET nis == nis_pis_numbers_of(text)
        pass1 == labelled_candidates(text, cpf_patterns, nis)
        pass2 == labelled_candidates(text, cpf_direct_patterns, nis)
    IN  IF pass1 # <<>> THEN pass1
        ELSE IF pass2 # <<>> THEN pass2
        ELSE generic_candidates(text, FindAllOf(text, generic_patterns, 1), nis, 1, <<>>)

\* info['cpf']
text_cpf(text) ==
    LET cands == cpf_candidates_of(text)
    IN  IF cands # <<>> THEN format_cpf(cands[1]) ELSE <<>>

\* re.sub(r'[^A-Za-z...\s]', '', nome): the capitals with an accent go
clean_nome(nome) ==
    SelectSeq(nome, LAMBDA c : c \in (LowerSet \cup {UpperSeq[i] : i \in 1..26} \cup WS))

\* nome.isdigit()
IsDigitStr(s) == s # <<>> /\ \A i \in 1..Len(s) : s[i] \in Digits

\* the name loop: the first pattern whose first match gives a valid name
RECURSIVE text_nome_from(_, _)
text_nome_from(text, k) ==
    IF k > Len(nome_patterns) THEN <<>>
    ELSE LET m == Search(text, nome_patterns[k])
             nome == IF m = <<>> THEN <<>> ELSE JoinSplit(clean_nome(Strip(m[1])))
         IN  IF m # <<>> /\ Len(nome) > 5 /\ ~IsDigitStr(nome) THEN Title(nome)
             ELSE text_nome_from(text, k + 1)

\* info['nome']
text_nome(text) == text_nome_from(text, 1)

\* the RG loop: the first pattern that matches decides
RECURSIVE text_rg_from(_, _)
text_rg_from(text, k) ==
    IF k > Len(rg_patterns) THEN <<>>
    ELSE LET m == Search(text, rg_patterns[k])
         IN  IF m # <<>> THEN Strip(m[1]) ELSE text_rg_from(text, k + 1)

\* info['rg']
text_rg(text) == text_rg_from(text, 1)

\* DocumentProcessorTextract.extract_information_from_text
extract_information_from_text(text) ==
    [nome |-> text_nome(text), cpf |-> text_cpf(text), rg |-> text_rg(text)]

----------------------------------------------------------------------------
(* DocumentProcessorTextract.extract_information_from_forms                 *)
(* key_value_pairs is a dict: a sequence of <<key, value>> with distinct    *)
(* keys, in insertion order.                                                *)

K_nome == { <<"n", "o", "m", "e">>, <<"n", "a", "m", "e">>,
            <<"t", "i", "t", "u", "l", "a", "r">> }

K_cpf == { <<"c", "p", "f">>, <<"c", ".", "p", ".", "f">>,
           <<"c", "a", "d", "a", "s", "t", "r", "o", " ", "d", "e", " ",
             "p", "e", "s", "s", "o", "a", " ", "f", "i^", "s", "i", "c", "a">> }

K_rg == { <<"r", "g">>,
          <<"r", "e", "g", "i", "s", "t", "r", "o", " ", "g", "e", "r", "a", "l">>,
          <<"i", "d", "e", "n", "t", "i", "d", "a", "d", "e">>,
          <<"r", "e", "g", "i", "s", "t", "r", "o">> }

K_nis == { <<"n", "i", "s">>, <<"p", "i", "s">>, <<"p", "a", "s", "e", "p">>,
           <<"n", "i", "s", "/", "p", "i", "s", "/", "p", "a", "s", "e", "p">>,
           <<"p", "i", "s", "/", "p", "a", "s", "e", "p">> }

\* any(pk in key.lower() for pk in possible_keys)
key_matches(key, possible_keys) == \E pk \in possible_keys : Contains(Lower(key), pk)

\* re.search(r'\d{11}', value)
P_digits11 == Pat(<<>>, BareGroup, <<>>, FALSE)

\* re.search(r'\d{3}\.?\d{3}\.?\d{3}-?\d{2}', value)
P_formatted == Pat(<<>>, FmtGroup, <<>>, FALSE)

\* nis_pis_numbers of the forms
RECURSIVE forms_nis_numbers(_, _)
forms_nis_numbers(kv, j) ==
    IF j > Len(kv) THEN <<>>
    ELSE (IF key_matches(kv[j][1], K_nis) THEN Search(kv[j][2], P_digits11) ELSE <<>>)
             \o forms_nis_numbers(kv, j + 1)

\* the characters the first re.sub of the cpf branch removes (the grave
\* accent, which no value of the model holds, is left out)
OcrPunct ==
    {"~", "!", "@", "#", "$", "%", "^", "&", "*", "(", ")", "_", "+", "=", "[",
     "]", "{", "}", "|", "\\", ":", "\"", ";", "'", "<", ">", "?", ",", ".", "/"}

\* O -> 0, l -> 1, S -> 5, Z -> 2
OcrDigit(c) ==
    CASE c = "O" -> "0" [] c = "l" -> "1" [] c = "S" -> "5" [] c = "Z" -> "2"
      [] OTHER -> c

\* cpf_value after the five re.sub calls
ocr_clean(value) ==
    LET kept == SelectSeq(value, LAMBDA c : c \notin OcrPunct)
    IN  [i \in 1..Len(kept) |-> OcrDigit(kept[i])]

\* what one pair under a cpf key gives: <<the digits>>, or <<>> when both
\* attempts fail
forms_cpf_of_value(value, nis) ==
    LET m1 == Search(ocr_clean(value), P_digits11)
        m2 == Search(value, P_formatted)
    IN  IF m1 # <<>> /\ cpf_accepted(m1[1], nis) THEN <<m1[1]>>
        ELSE IF m2 # <<>> /\ cpf_accepted(clean_cpf(m2[1]), nis) THEN <<clean_cpf(m2[1])>>
        ELSE <<>>

\* the same loop with a break after the first pair under a cpf key
forms_cpf_first_only(kv, nis, j) ==
    IF \E i \in j..Len(kv) : key_matches(kv[i][1], K_cpf)
    THEN LET i == CHOOSE i \in j..Len(kv) :
                      /\ key_matches(kv[i][1], K_cpf)
                      /\ \A h \in j..(i - 1) : ~key_matches(kv[h][1], K_cpf)
             c == forms_cpf_of_value(kv[i][2], nis)
         IN  IF c # <<>> THEN format_cpf(c[1]) ELSE <<>>
    ELSE <<>>

\* the loop over the pairs for the field cpf: the first pair that gives a
\* valid number decides, a pair that gives none is passed over
RECURSIVE forms_cpf_from(_, _, _)
forms_cpf_from(kv, nis, j) ==
    IF j > Len(kv) THEN <<>>
    ELSE LET c == IF key_matches(kv[j][1], K_cpf)
                  THEN forms_cpf_of_value(kv[j][2], nis) ELSE <<>>
         IN  IF c # <<>> THEN format_cpf(c[1]) ELSE forms_cpf_from(kv, nis, j + 1)

\* the loop for the field nome
RECURSIVE forms_nome_from(_, _)
forms_nome_from(kv, j) ==
    IF j > Len(kv) THEN <<>>
    ELSE LET nome == JoinSplit(clean_nome(kv[j][2]))
         IN  IF key_matches(kv[j][1], K_nome) /\ Len(nome) > 5 THEN Title(nome)
             ELSE forms_nome_from(kv, j + 1)

\* the loop for the field rg: the first pair under an rg key decides
RECURSIVE forms_rg_from(_, _)
forms_rg_from(kv, j) ==
    IF j > Len(kv) THEN <<>>
    ELSE IF key_matches(kv[j][1], K_rg) THEN Strip(kv[j][2])
    ELSE forms_rg_from(kv, j + 1)

\* DocumentProcessorTextract.extract_information_from_forms
extract_information_from_forms(kv) ==
    [nome |-> forms_nome_from(kv, 1),
     cpf |-> forms_cpf_from(kv, forms_nis_numbers(kv, 1), 1),
     rg |-> forms_rg_from(kv, 1)]

Fields == {"nome", "cpf", "rg"}

\* "Combina resultados (prioriza formularios estruturados)":
\* info[field] = info_forms.get(field) or info_text.get(field, '')
merge_textract(forms, txt) ==
    [f \in Fields |-> IF forms[f] # <<>> THEN forms[f] ELSE txt[f]]

----------------------------------------------------------------------------
(* document_processor_improved.py: DocumentProcessor                       *)

\* [:\s]*  and  [:\s]+  and  [/\s]*
ColonWS == {":"} \cup WS

SlashWS == {"/"} \cup WS

\* \d{3}\.?\d{3}\.?\d{3}[-\.]?\d{2}
ImpFmtGroup ==
    Cls(Digits, 3, 3) \o Cls({"."}, 0, 1) \o Cls(Digits, 3, 3) \o Cls({"."}, 0, 1)
        \o Cls(Digits, 3, 3) \o Cls({"-", "."}, 0, 1) \o Cls(Digits, 2, 2)

\* info_patterns['cpf']
imp_cpf_patterns ==
    << Pat(L_cpf \o Cls(ColonWS, 0, -1), ImpFmtGroup, <<>>, TRUE),
       Pat(<<>>, ImpFmtGroup, <<>>, TRUE),
       Pat(L_cpf \o Cls(ColonWS, 0, -1), BareGroup, <<>>, TRUE) >>

\* info_patterns['nis_pis_pasep']
imp_nis_patterns ==
    << Pat(Lit(<<"n", "i", "s">>) \o Cls(SlashWS, 0, -1) \o Lit(<<"p", "i", "s">>)
               \o Cls(SlashWS, 0, -1) \o Lit(<<"p", "a", "s", "e", "p">>)
               \o Cls(ColonWS, 0, -1), Cls(Digits, 1, -1), <<>>, TRUE),
       Pat(Lit(<<"p", "i", "s">>) \o Cls(SlashWS, 0, -1) \o Lit(<<"p", "a", "s", "e", "p">>)
               \o Cls(ColonWS, 0, -1), Cls(Digits, 1, -1), <<>>, TRUE),
       Pat(Lit(<<"n", "i", "s">>) \o Cls(ColonWS, 0, -1), Cls(Digits, 1, -1), <<>>, TRUE),
       Pat(Lit(<<"p", "i", "s">>) \o Cls(ColonWS, 0, -1), Cls(Digits, 1, -1), <<>>, TRUE),
       Pat(Lit(<<"p", "a", "s", "e", "p">>) \o Cls(ColonWS, 0, -1), Cls(Digits, 1, -1),
           <<>>, TRUE) >>

\* info_patterns['nome']
imp_nome_patterns ==
    << Pat(Lit(<<"n", "o", "m", "e">>) \o Cls(ColonWS, 1, -1), Cls(NameRest, 1, -1), <<>>, TRUE),
       Pat(Lit(<<"n", "a", "m", "e">>) \o Cls(ColonWS, 1, -1), Cls(NameRest, 1, -1), <<>>, TRUE),
       Pat(LineStart, Cls(NameRest, 10, -1), LineEnd, TRUE) >>

\* \d+\.?\d+\.?\d+[-\.]?\d*
ImpRgGroup ==
    Cls(Digits, 1, -1) \o Cls({"."}, 0, 1) \o Cls(Digits, 1, -1) \o Cls({"."}, 0, 1)
        \o Cls(Digits, 1, -1) \o Cls({"-", "."}, 0, 1) \o Cls(Digits, 0, -1)

\* info_patterns['rg']
imp_rg_patterns ==
    << Pat(Lit(<<"r", "g">>) \o Cls(ColonWS, 0, -1), ImpRgGroup, <<>>, TRUE),
       Pat(Lit(<<"r", "e", "g", "i", "s", "t", "r", "o">>) \o SepSpace
               \o Lit(<<"g", "e", "r", "a", "l">>) \o Cls(ColonWS, 0, -1), ImpRgGroup, <<>>, TRUE),
       Pat(Lit(<<"i", "d", "e", "n", "t", "i", "d", "a", "d", "e">>) \o Cls(ColonWS, 0, -1),
           ImpRgGroup, <<>>, TRUE) >>

\* t.replace(old, ''), from the 1-based position i on
RECURSIVE RemoveAll(_, _, _)
RemoveAll(t, old, i) ==
    LET at == { j \in i..(Len(t) - Len(old) + 1) : SubSeq(t, j, j + Len(old) - 1) = old }
    IN  IF old = <<>> \/ at = {} THEN SubSeq(t, i, Len(t))
        ELSE SubSeq(t, i, MinOf(at) - 1) \o RemoveAll(t, old, MinOf(at) + Len(old))

\* text_without_nis: the numbers removed one after the other
RECURSIVE RemoveEach(_, _, _)
RemoveEach(t, numbers, j) ==
    IF j > Len(numbers) THEN t
    ELSE RemoveEach(RemoveAll(t, numbers[j], 1), numbers, j + 1)

\* the first match, in table order, that passes the test of a loop
FirstThat(ms, Test(_)) ==
    LET ok == SelectSeq(ms, Test) IN IF ok = <<>> THEN <<>> ELSE <<ok[1]>>

imp_text_cpf(text) ==
    LET text_without_nis == RemoveEach(text, FindAllOf(text, imp_nis_patterns, 1), 1)
        ms == FindAllOf(text_without_nis, imp_cpf_patterns, 1)
        hit == FirstThat(ms, LAMBDA m : Len(clean_cpf(m)) = 11 /\ validate_cpf(clean_cpf(m)))
    IN  IF hit = <<>> THEN <<>> ELSE format_cpf(clean_cpf(hit[1]))

imp_text_nome(text) ==
    LET ms == FindAllOf(text, imp_nome_patterns, 1)
        hit == FirstThat(ms, LAMBDA m : Len(Strip(m)) > 5
                                          /\ \A i \in 1..Len(m) : m[i] \notin Digits)
    IN  IF hit = <<>> THEN <<>> ELSE Title(Strip(hit[1]))

imp_text_rg(text) ==
    LET ms == FindAllOf(text, imp_rg_patterns, 1)
        hit == FirstThat(ms, LAMBDA m : Len(Strip(m)) > 5)
    IN  IF hit = <<>> THEN <<>> ELSE Strip(hit[1])

\* document_processor_improved.py: DocumentProcessor.extract_information_from_text
imp_extract_information_from_text(text) ==
    [nome |-> imp_text_nome(text), cpf |-> imp_text_cpf(text), rg |-> imp_text_rg(text)]

\* field_mapping of process_document
field_mapping ==
    [nome |-> << <<"n", "o", "m", "e">>, <<"n", "a", "m", "e">> >>,
     cpf |-> << <<"c", "p", "f">> >>,
     rg |-> << <<"r", "g">>,
               <<"r", "e", "g", "i", "s", "t", "r", "o", " ", "g", "e", "r", "a", "l">>,
               <<"i", "d", "e", "n", "t", "i", "d", "a", "d", "e">> >>]

\* key in structured_data
HasKey(kv, key) == \E j \in 1..Len(kv) : kv[j][1] = key

\* structured_data[key]
ValueOf(kv, key) == kv[CHOOSE j \in 1..Len(kv) : kv[j][1] = key][2]

\* what the inner loop of the merge takes from structured_data for a field:
\* the value under the first possible key present, a cpf only when valid
imp_structured(kv, f) ==
    LET keys == SelectSeq(field_mapping[f], LAMBDA k : HasKey(kv, k))
        value == IF keys = <<>> THEN <<>> ELSE ValueOf(kv, keys[1])
    IN  IF f = "cpf"
        THEN (IF Len(clean_cpf(value)) = 11 /\ validate_cpf(clean_cpf(value))
              THEN format_cpf(clean_cpf(value)) ELSE <<>>)
        ELSE value

\* "Combina informacoes estruturadas se disponiveis": a field the text gave
\* is kept, structured_data fills the fields the text left empty
merge_improved(forms, txt) ==
    [f \in Fields |-> IF txt[f] # <<>> THEN txt[f] ELSE forms[f]]

----------------------------------------------------------------------------
(* RobustDocumentProcessor (document_processor_robust.py)                   *)

\* info_patterns['cpf'], searched without re.IGNORECASE
rob_cpf_patterns ==
    << Pat(L_cpf \o SepColon, FmtGroup, <<>>, FALSE),
       Pat(L_c_p_f \o SepColon, FmtGroup, <<>>, FALSE),
       Pat(<<>>, FmtGroup, <<>>, FALSE) >>

\* info_patterns['nome']
rob_nome_patterns ==
    << Pat(Lit(<<"n", "o", "m", "e">>) \o SepColon, Cls(NameRest, 1, -1), <<>>, TRUE),
       Pat(Lit(<<"n", "a", "m", "e">>) \o SepColon, Cls(NameRest, 1, -1), <<>>, TRUE),
       Pat(Lit(<<"t", "i", "t", "u", "l", "a", "r">>) \o SepColon, Cls(NameRest, 1, -1),
           <<>>, TRUE) >>

\* the cpf loop: the first pattern that matches decides, nothing is validated
RECURSIVE rob_cpf_from(_, _)
rob_cpf_from(text, k) ==
    IF k > Len(rob_cpf_patterns) THEN <<>>
    ELSE LET m == Search(text, rob_cpf_patterns[k])
         IN  IF m # <<>> THEN m[1] ELSE rob_cpf_from(text, k + 1)

\* the name loop
RECURSIVE rob_nome_from(_, _)
rob_nome_from(text, k) ==
    IF k > Len(rob_nome_patterns) THEN <<>>
    ELSE LET m == Search(text, rob_nome_patterns[k])
             nome == IF m = <<>> THEN <<>> ELSE Title(Strip(m[1]))
         IN  IF m # <<>> /\ Len(nome) > 3 THEN nome ELSE rob_nome_from(text, k + 1)

\* RobustDocumentProcessor.extract_information (it has no rg)
rob_extract_information(text) ==
    [nome |-> rob_nome_from(text, 1), cpf |-> rob_cpf_from(text, 1), rg |-> <<>>]

----------------------------------------------------------------------------
(* process_document, from the OCR text and the key-value pairs on           *)

EmptyInfo == [nome |-> <<>>, cpf |-> <<>>, rg |-> <<>>]

\* {"erro": ..., "sucesso": False}; the fields a failure does not carry are
\* written empty
Failure == [sucesso |-> FALSE, nome |-> <<>>, cpf |-> <<>>, rg |-> <<>>, cpf_valido |-> FALSE]

\* cpf_valido = False; if info['cpf']: cpf_valido = validate_cpf(info['cpf'])
cpf_valido_of(info) == info.cpf # <<>> /\ validate_cpf(info.cpf)

\* the record of a successful run
Success(info) ==
    [sucesso |-> TRUE, nome |-> info.nome, cpf |-> info.cpf, rg |-> info.rg,
     cpf_valido |-> cpf_valido_of(info)]

\* a successful run that reports the validity of the free-text candidate
textract_record_text_validity(forms, txt) ==
    [Success(merge_textract(forms, txt)) EXCEPT !.cpf_valido = cpf_valido_of(txt)]

\* DocumentProcessorTextract.process_document after the text extraction
textract_record(forms, txt) == Success(merge_textract(forms, txt))

\* the structured fields of document_processor_improved.py, one per field
imp_info_forms(pairs) == [f \in Fields |-> imp_structured(pairs, f)]

----------------------------------------------------------------------------
(* identify_document_type (document_processor_textract.py and             *)
(* document_processor_robust.py)                                          *)

\* a signature pattern: no group, re.IGNORECASE
Sig(atoms) == Pat(<<>>, atoms, <<>>, TRUE)

\* document_patterns['RG']
rg_signatures ==
    << \* registro\s+geral
       Sig(Lit(<<"r", "e", "g", "i", "s", "t", "r", "o">>) \o SepSpace \o
           Lit(<<"g", "e", "r", "a", "l">>)),
       \* carteira\s+de\s+identidade
       Sig(Lit(<<"c", "a", "r", "t", "e", "i", "r", "a">>) \o SepSpace \o
           Lit(<<"d", "e">>) \o SepSpace \o Lit(<<"i", "d", "e", "n", "t",
           "i", "d", "a", "d", "e">>)),
       \* repu^blica\s+federativa\s+do\s+brasil
       Sig(Lit(<<"r", "e", "p", "u^", "b", "l", "i", "c", "a">>) \o SepSpace
           \o Lit(<<"f", "e", "d", "e", "r", "a", "t", "i", "v", "a">>) \o
           SepSpace \o Lit(<<"d", "o">>) \o SepSpace \o Lit(<<"b", "r", "a",
           "s", "i", "l">>)),
       \* secretaria\s+de\s+seguranc,a
       Sig(Lit(<<"s", "e", "c", "r", "e", "t", "a", "r", "i", "a">>) \o
           SepSpace \o Lit(<<"d", "e">>) \o SepSpace \o Lit(<<"s", "e", "g",
           "u", "r", "a", "n", "c,", "a">>)),
       \* rg\s*:?\s*\d+
       Sig(Lit(<<"r", "g">>) \o SepColon \o Cls(Digits, 1, -1)),
       \* identidade
       Sig(Lit(<<"i", "d", "e", "n", "t", "i", "d", "a", "d", "e">>)) >>

\* document_patterns['CNH']
cnh_signatures ==
    << \* carteira\s+nacional\s+de\s+habilitac,a~o
       Sig(Lit(<<"c", "a", "r", "t", "e", "i", "r", "a">>) \o SepSpace \o
           Lit(<<"n", "a", "c", "i", "o", "n", "a", "l">>) \o SepSpace \o
           Lit(<<"d", "e">>) \o SepSpace \o Lit(<<"h", "a", "b", "i", "l",
           "i", "t", "a", "c,", "a~", "o">>)),
       \* permissa~o\s+para\s+dirigir
       Sig(Lit(<<"p", "e", "r", "m", "i", "s", "s", "a~", "o">>) \o SepSpace
           \o Lit(<<"p", "a", "r", "a">>) \o SepSpace \o Lit(<<"d", "i", "r",
           "i", "g", "i", "r">>)),
       \* categoria
       Sig(Lit(<<"c", "a", "t", "e", "g", "o", "r", "i", "a">>)),
       \* validade
       Sig(Lit(<<"v", "a", "l", "i", "d", "a", "d", "e">>)),
       \* cnh\s*:?\s*\d+
       Sig(Lit(<<"c", "n", "h">>) \o SepColon \o Cls(Digits, 1, -1)),
       \* registro\s*:?\s*\d+
       Sig(Lit(<<"r", "e", "g", "i", "s", "t", "r", "o">>) \o SepColon \o
           Cls(Digits, 1, -1)),
       \* habilitac,a~o
       Sig(Lit(<<"h", "a", "b", "i", "l", "i", "t", "a", "c,", "a~", "o">>)) >>

\* document_patterns['PASSAPORTE']
passaporte_signatures ==
    << \* passaporte
       Sig(Lit(<<"p", "a", "s", "s", "a", "p", "o", "r", "t", "e">>)),
       \* passport
       Sig(Lit(<<"p", "a", "s", "s", "p", "o", "r", "t">>)),
       \* repu^blica\s+federativa\s+do\s+brasil
       Sig(Lit(<<"r", "e", "p", "u^", "b", "l", "i", "c", "a">>) \o SepSpace
           \o Lit(<<"f", "e", "d", "e", "r", "a", "t", "i", "v", "a">>) \o
           SepSpace \o Lit(<<"d", "o">>) \o SepSpace \o Lit(<<"b", "r", "a",
           "s", "i", "l">>)),
       \* ministe^rio\s+das\s+relac,o~es\s+exteriores
       Sig(Lit(<<"m", "i", "n", "i", "s", "t", "e^", "r", "i", "o">>) \o
           SepSpace \o Lit(<<"d", "a", "s">>) \o SepSpace \o Lit(<<"r", "e",
           "l", "a", "c,", "o~", "e", "s">>) \o SepSpace \o Lit(<<"e", "x",
           "t", "e", "r", "i", "o", "r", "e", "s">>)),
       \* tipo\s*:\s*p
       Sig(Lit(<<"t", "i", "p", "o">>) \o Cls(WS, 0, -1) \o Lit(<<":">>) \o
           Cls(WS, 0, -1) \o Lit(<<"p">>)),
       \* pai^s\s+de\s+emissa~o
       Sig(Lit(<<"p", "a", "i^", "s">>) \o SepSpace \o Lit(<<"d", "e">>) \o
           SepSpace \o Lit(<<"e", "m", "i", "s", "s", "a~", "o">>)) >>

\* the keys of document_patterns, in dict order
DocTypes == <<"RG", "CNH", "PASSAPORTE">>

\* DocumentProcessorTextract.document_patterns
document_patterns ==
    [ty \in {"RG", "CNH", "PASSAPORTE"} |->
        CASE ty = "RG" -> rg_signatures
          [] ty = "CNH" -> cnh_signatures
          [] ty = "PASSAPORTE" -> passaporte_signatures]

\* RobustDocumentProcessor.document_patterns: the same lists without
\* 'identidade' for RG and without 'habilitac,a~o' for CNH
rob_document_patterns ==
    [ty \in {"RG", "CNH", "PASSAPORTE"} |->
        CASE ty = "RG" -> SubSeq(rg_signatures, 1, 5)
          [] ty = "CNH" -> SubSeq(cnh_signatures, 1, 6)
          [] ty = "PASSAPORTE" -> passaporte_signatures]

\* score += len(re.findall(pattern, text, re.IGNORECASE)) over the patterns
RECURSIVE score_from(_, _, _)
score_from(t, patterns, k) ==
    IF k > Len(patterns) THEN 0
    ELSE Len(FindAll(t, patterns[k])) + score_from(t, patterns, k + 1)

\* scores, for text.lower()
scores_of(text, table) ==
    [ty \in DOMAIN table |-> score_from(Lower(text), table[ty], 1)]

\* max(scores.values())
max_score(scores) ==
    CHOOSE m \in {scores[ty] : ty \in DOMAIN scores} :
        \A ty \in DOMAIN scores : scores[ty] <= m

\* the first key, in dict order, with a score above 0
best_type_first_nonzero(scores) ==
    DocTypes[MinOf({ k \in 1..Len(DocTypes) : scores[DocTypes[k]] > 0 })]

\* max(scores, key=scores.get): the first key, in dict order, that has the
\* highest score
best_type(scores) ==
    DocTypes[MinOf({ k \in 1..Len(DocTypes) : scores[DocTypes[k]] = max_score(scores) })]

\* "Retorna o tipo com maior pontuacao se > 0", else None
type_of_scores(scores) ==
    IF max_score(scores) > 0 THEN best_type(scores) ELSE "None"

\* DocumentProcessorTextract.identify_document_type
identify_document_type(text) == type_of_scores(scores_of(text, document_patterns))

\* RobustDocumentProcessor.identify_document_type
rob_identify_document_type(text) ==
    IF text = <<>> THEN "None" ELSE type_of_scores(scores_of(text, rob_document_patterns))

----------------------------------------------------------------------------
(* document_processor_advanced_complete.py: the photo search               *)
(*                                                                         *)
(* An image is a record: id, area (pixels, in model units), faces (what    *)
(* detect_faces_multiple_methods finds on its enhanced versions, in the    *)
(* order the loops meet them) and detect_raises (the detection of this     *)
(* image raises).  A face is [area, method, enh, crops]: crops says         *)
(* whether crop_face_3x4 returns a region for it.                          *)

\* best_image = None
NoImage == [src |-> "none"]

\* "Bonus para metodos mais confiaveis", in tenths
method_bonus(method) ==
    IF method = "frontal_default" THEN 12
    ELSE IF method = "frontal_alt" THEN 11
    ELSE 10

\* "Bonus para imagem original (nao melhorada)", in tenths
enh_bonus(enh_idx) == IF enh_idx = 0 THEN 11 ELSE 10

\* confidence = face_area / (shape[0] * shape[1]), times the bonuses, kept
\* as the fraction num / den
confidence(img, face) ==
    [num |-> face.area * method_bonus(face.method) * enh_bonus(face.enh),
     den |-> img.area * 100]

\* c1 > c2 for two confidences
Greater(c1, c2) == c1.num * c2.den > c2.num * c1.den

\* f"{method}_enh{enh_idx}"
detection_info(face) == face.method \o "_enh" \o ToString(face.enh)

\* the tuple (face_region, detection_info, confidence) of face k of img
face_tuple(img, k) ==
    [image |-> [src |-> "face", of |-> img.id, region |-> k],
     info |-> detection_info(img.faces[k]),
     conf |-> confidence(img, img.faces[k])]

\* what one image adds to all_faces: a face whose crop is None is left out
faces_of_image(img) ==
    SelectSeq([k \in 1..Len(img.faces) |-> face_tuple(img, k)],
              LAMBDA t : img.faces[t.image.region].crops)

\* all_faces before the sort
RECURSIVE all_faces_from(_, _)
all_faces_from(images, i) ==
    IF i > Len(images) THEN <<>>
    ELSE faces_of_image(images[i]) \o all_faces_from(images, i + 1)

\* the list left as it was collected
sort_faces_unsorted(all) == all

\* a descending sort that turns round the candidates of equal confidence
sort_faces_ties_reversed(all) ==
    LET rank(i) == Cardinality({ j \in 1..Len(all) : Greater(all[j].conf, all[i].conf) })
                   + Cardinality({ j \in (i + 1)..Len(all) :
                                     ~Greater(all[i].conf, all[j].conf)
                                     /\ ~Greater(all[j].conf, all[i].conf) })
                   + 1
    IN  [r \in 1..Len(all) |-> all[CHOOSE i \in 1..Len(all) : rank(i) = r]]

\* all_faces.sort(key=lambda x: x[2], reverse=True): descending and stable
sort_faces(all) ==
    LET rank(i) == Cardinality({ j \in 1..Len(all) : Greater(all[j].conf, all[i].conf) })
                   + Cardinality({ j \in 1..(i - 1) :
                                     ~Greater(all[i].conf, all[j].conf)
                                     /\ ~Greater(all[j].conf, all[i].conf) })
                   + 1
    IN  [r \in 1..Len(all) |-> all[CHOOSE i \in 1..Len(all) : rank(i) = r]]

\* DocumentProcessor.detect_faces_advanced: the sorted list, or the
\* exception that enhance / detect raised on one of the images
detect_faces_advanced(images) ==
    IF \E i \in 1..Len(images) : images[i].detect_raises
    THEN [raised |-> TRUE, faces |-> <<>>]
    ELSE [raised |-> FALSE, faces |-> sort_faces(all_faces_from(images, 1))]

\* pixel caps, in thousands of pixels, and the pages a tier looks at
RenderedPixelCap == 6000

FullPagePixelCap == 8000

MaxRenderPages == 3

\* squares of the scale factors, in hundredths: 1.5 (max_render_resolution),
\* 1.2 and 0.8
Scale15 == 225

Scale12 == 144

Scale08 == 64

\* pix.width * pix.height of a page rendered at a scale, in thousands
render_pixels(page, scale) == (page.px * scale) \div 100

\* min(len(doc), 3)
PagesLooked(pages) == IF Len(pages) < MaxRenderPages THEN Len(pages) ELSE MaxRenderPages

\* the image a page gives the rendered-face tier
rendered_image(page, n) ==
    [id |-> <<"rendered", n>>, area |-> render_pixels(page, Scale15),
     faces |-> page.faces, detect_raises |-> page.detect_raises]

\* DocumentProcessor.extract_faces_from_rendered_pages: a page above the cap
\* is passed over; an exception ends the loop and what was collected is
\* returned
RECURSIVE rendered_pages_from(_, _)
rendered_pages_from(pages, n) ==
    IF n > PagesLooked(pages) THEN <<>>
    ELSE IF pages[n].raises = "rendered" THEN <<>>
    ELSE IF render_pixels(pages[n], Scale15) > RenderedPixelCap
         THEN rendered_pages_from(pages, n + 1)
    ELSE <<rendered_image(pages[n], n)>> \o rendered_pages_from(pages, n + 1)

extract_faces_from_rendered_pages(pages) == rendered_pages_from(pages, 1)

\* the image a page gives the full-page tier: rendered at 1.2, or at 0.8 when
\* the first render is above the cap; cropped to its content when
\* smart_crop_page finds some, whole otherwise
full_page_image(page, n) ==
    [src |-> "page", id |-> n,
     scale |-> IF render_pixels(page, Scale12) > FullPagePixelCap THEN Scale08 ELSE Scale12,
     cropped |-> page.content]

\* DocumentProcessor.extract_full_page_images
RECURSIVE full_pages_from(_, _)
full_pages_from(pages, n) ==
    IF n > PagesLooked(pages) THEN <<>>
    ELSE IF pages[n].raises = "full" THEN <<>>
    ELSE <<full_page_image(pages[n], n)>> \o full_pages_from(pages, n + 1)

extract_full_page_images(pages) == full_pages_from(pages, 1)

\* detect_best_photo_or_fallback, third tier ("Terceiro: fallback para
\* imagem completa do documento"): what the function returns from there on
full_page_tier(pages, calls) ==
    LET page_images == extract_full_page_images(pages)
        made == Append(calls, "extract_full_page_images(pdf_path)")
    IN  IF page_images # <<>>
        THEN [raised |-> FALSE, image |-> page_images[1], tag |-> "full_document",
              calls |-> made]
        ELSE [raised |-> FALSE, image |-> NoImage, tag |-> "none", calls |-> made]

\* the search going from the first tier straight to the third
rendered_tier_skipped(pages, calls) == full_page_tier(pages, calls)

\* detect_best_photo_or_fallback, second tier ("Segundo: tenta detectar
\* rostos em paginas renderizadas"): an exception of the detection is caught
\* and the third tier follows
rendered_tier(pages, calls) ==
    LET rendered_images == extract_faces_from_rendered_pages(pages)
        rendered_faces == detect_faces_advanced(rendered_images)
        called == Append(calls, "extract_faces_from_rendered_pages(pdf_path)")
        made == IF rendered_images # <<>>
                THEN Append(called, "detect_faces_advanced(rendered_images)")
                ELSE called
    IN  IF rendered_images # <<>> /\ ~rendered_faces.raised /\ rendered_faces.faces # <<>>
        THEN [raised |-> FALSE, image |-> rendered_faces.faces[1].image,
              tag |-> "face_rendered_" \o rendered_faces.faces[1].info, calls |-> made]
        ELSE full_page_tier(pages, made)

\* DocumentProcessor.detect_best_photo_or_fallback: the first tier runs
\* outside any try, so what detect_faces_advanced raises leaves the function
detect_best_photo_or_fallback(images, pages) ==
    LET faces_detected == detect_faces_advanced(images)
        made == <<"detect_faces_advanced(images)">>
    IN  IF faces_detected.raised
        THEN [raised |-> TRUE, image |-> NoImage, tag |-> "none", calls |-> made]
        ELSE IF faces_detected.faces # <<>>
        THEN [raised |-> FALSE, image |-> faces_detected.faces[1].image,
              tag |-> "face_detected_" \o faces_detected.faces[1].info, calls |-> made]
        ELSE rendered_tier(pages, made)

InitCPFIdle ==
    /\ cpf_in = <<>>
    /\ cpf_out = "unset"
    /\ cpf_prev = <<>>
    /\ prev_out = "unset"

InitDocIdle ==
    /\ ocr_text = <<>>
    /\ form_pairs = <<>>
    /\ processor = "none"
    /\ info_text = EmptyInfo
    /\ info_forms = EmptyInfo
    /\ result = Failure

InitPhotoIdle ==
    /\ embedded_images = <<>>
    /\ pdf_pages = <<>>
    /\ photo_pc = "idle"
    /\ photo_calls = <<>>
    /\ best_image = NoImage
    /\ extraction_method = "none"
    /\ photo_path = NoImage
    /\ photo_error = FALSE

InitTypeIdle ==
    /\ doc_type = "unset"
    /\ classifier = "none"

NotRun == [state |-> "idle"]

InitRunIdle ==
    /\ pdf_state = "ok"
    /\ ocr_fails = FALSE
    /\ output_dir_ok = TRUE
    /\ run = NotRun

\* clean_cpf has not been called
NotCleaned == [state |-> "unset"]

InitCleanIdle == clean_out = NotCleaned

\* extract_images_from_pdf has not been called
NotExtracted == [state |-> "unset"]

InitEmbedIdle ==
    /\ doc_embedded = <<>>
    /\ extracted = NotExtracted

\* detect_faces_advanced has not returned
NoCandidates == [state |-> "unset"]

InitFaceIdle ==
    /\ cascade_hits = <<>>
    /\ face_candidates = NoCandidates

InitMemIdle ==
    /\ mem_proc = "none"
    /\ mem_pc = "idle"
    /\ held_embedded = 0
    /\ held_rendered = 0
    /\ mem_page = 0
    /\ mem_faces = 0
    /\ mem_found = FALSE

\* no pattern table has been built
NoTables == [state |-> "unset"]

\* the function has not been called
NotCalled == [state |-> "unset"]

InitPureIdle ==
    /\ tables = NoTables
    /\ pure_calls = [f \in {"classify", "text", "forms"} |-> 0]
    /\ first_results = [f \in {"classify", "text", "forms"} |-> NotCalled]

\* remove_duplicate_faces has not been called
NotDeduped == [state |-> "unset"]

InitDedupIdle ==
    /\ faces_in = <<>>
    /\ unique_out = NotDeduped

\* crop_face_3x4 has not been called
NotCropped == [state |-> "unset"]

NoCropInput == [img_width |-> 0, img_height |-> 0]

InitCropIdle ==
    /\ crop_in = NoCropInput
    /\ crop_out = NotCropped

\* /upload has not answered
NotSent == [state |-> "unset"]

Requests == {"a", "b"}

InitUploadIdle ==
    /\ up_app = "none"
    /\ up_result = [q \in Requests |-> <<>>]
    /\ up_shown = [q \in Requests |-> NotSent]

\* detect_best_photo has not returned
NotReturned == [state |-> "unset"]

InitBestIdle ==
    /\ bp_images = <<>>
    /\ bp_photo = NoImage
    /\ bp_score = 0
    /\ bp_returned = NotReturned

\* extract_text_robust has not returned
NoTextYet == [state |-> "unset"]

\* process_document of the robust processor has not returned
NoResultYet == [state |-> "unset"]

NoPdf == [exists |-> FALSE]

InitRobustIdle ==
    /\ rb_pdf = NoPdf
    /\ rb_pc = "idle"
    /\ rb_calls = <<>>
    /\ rb_text = NoTextYet
    /\ rb_result = NoResultYet

InitLateIdle == InitMemIdle /\ InitPureIdle /\ InitDedupIdle /\ InitCropIdle /\ InitUploadIdle /\ InitBestIdle /\ InitRobustIdle

IdleButMem == InitPureIdle /\ InitDedupIdle /\ InitCropIdle /\ InitUploadIdle /\ InitBestIdle /\ InitRobustIdle

IdleButPure == InitMemIdle /\ InitDedupIdle /\ InitCropIdle /\ InitUploadIdle /\ InitBestIdle /\ InitRobustIdle

IdleButDedup == InitMemIdle /\ InitPureIdle /\ InitCropIdle /\ InitUploadIdle /\ InitBestIdle /\ InitRobustIdle

IdleButCrop == InitMemIdle /\ InitPureIdle /\ InitDedupIdle /\ InitUploadIdle /\ InitBestIdle /\ InitRobustIdle

IdleButUpload == InitMemIdle /\ InitPureIdle /\ InitDedupIdle /\ InitCropIdle /\ InitBestIdle /\ InitRobustIdle

IdleButBest == InitMemIdle /\ InitPureIdle /\ InitDedupIdle /\ InitCropIdle /\ InitUploadIdle /\ InitRobustIdle

IdleButRobust == InitMemIdle /\ InitPureIdle /\ InitDedupIdle /\ InitCropIdle /\ InitUploadIdle /\ InitBestIdle

\* DocumentProcessorTextract.process_document
ProcessTextract ==
    /\ processor = "none"
    /\ processor' = "textract"
    /\ IF ocr_text = <<>>
       THEN /\ info_text' = EmptyInfo
            /\ info_forms' = EmptyInfo
            /\ result' = Failure
       ELSE /\ info_text' = extract_information_from_text(ocr_text)
            /\ info_forms' = extract_information_from_forms(form_pairs)
            /\ result' = textract_record(info_forms', info_text')
    /\ UNCHANGED <<ocr_text, form_pairs, cpfVars, photoVars, typeVars, runVars, faceVars, cleanVars, embedVars, lateVars>>

\* document_processor_improved.py: DocumentProcessor.process_document
ProcessImproved ==
    /\ processor = "none"
    /\ processor' = "improved"
    /\ info_text' = imp_extract_information_from_text(ocr_text)
    /\ info_forms' = imp_info_forms(form_pairs)
    /\ result' = Success(merge_improved(info_forms', info_text'))
    /\ UNCHANGED <<ocr_text, form_pairs, cpfVars, photoVars, typeVars, runVars, faceVars, cleanVars, embedVars, lateVars>>

\* RobustDocumentProcessor.process_document
ProcessRobust ==
    /\ processor = "none"
    /\ processor' = "robust"
    /\ info_forms' = EmptyInfo
    /\ IF ocr_text = <<>>
       THEN info_text' = EmptyInfo /\ result' = Failure
       ELSE /\ info_text' = rob_extract_information(ocr_text)
            /\ result' = Success(info_text')
    /\ UNCHANGED <<ocr_text, form_pairs, cpfVars, photoVars, typeVars, runVars, faceVars, cleanVars, embedVars, lateVars>>

----------------------------------------------------------------------------
(* Documents whose text grows line by line and that carry no key-value      *)
(* pairs (SpecText)                                                         *)

\* how many lines a text holds at most
MaxLines == 2

\* the lines a text is made of
TextLines ==
    { <<"C", "P", "F", ":", " ", "1", "1", "1", ".", "4", "4", "4", ".", "7", "7", "7",
        "-", "3", "5">>,
      <<"C", "P", "F", " ", "5", "2", "9", "9", "8", "2", "2", "4", "7", "2", "5">>,
      <<"c", "p", "f", ":", "1", "1", "1", "4", "4", "4", "7", "7", "7", "3", "5">>,
      <<"C", "P", "F">>,
      <<"N", "I", "S", ":", " ", "1", "1", "1", "4", "4", "4", "7", "7", "7", "3", "5">>,
      <<"P", "I", "S", "/", "P", "A", "S", "E", "P", " ", "5", "2", "9", "9", "8", "2",
        "2", "4", "7", "2", "5">>,
      <<"N", "I", "S", "/", "P", "I", "S", "/", "P", "A", "S", "E", "P", ":">>,
      <<"P", "a", "s", "e", "p", ":", "5", "2", "9", "9", "8", "2", "2", "4", "7", "2",
        "5">>,
      <<"1", "1", "1", "4", "4", "4", "7", "7", "7", "3", "5">>,
      <<"5", "2", "9", ".", "9", "8", "2", ".", "2", "4", "7", "-", "2", "5">>,
      <<"C", "P", "F", ":", " ", "1", "2", "3", ".", "4", "5", "6", ".", "7", "8", "9",
        "-", "0", "0">>,
      <<"N", "I", "S", ":", " ", "1", "2", "3", "4", "5", "6", "7", "8", "9", "0", "1">>,
      <<"N", "o", "m", "e", ":", " ", "M", "A", "R", "I", "A", " ", "S", "I", "L", "V",
        "A">>,
      <<"R", "G", ":", " ", "1", "2", ".", "3", "4", "5", ".", "6", "7", "8", "-", "9">>,
      <<"C", "p", "f", " ", ":", " ", "5", "2", "9", ".", "9", "8", "2", ".", "2", "4", "7", "-", "2", "5">>,
      <<"P", "I", "S", ":", " ", "1", "1", "1", "4", "4", "4", "7", "7", "7", "3", "5">>,
      <<"N", "I", "S", " ", "5", "2", "9", "9", "8", "2", "2", "4", "7", "2", "5">> }

\* the number of lines of a text
NumLines(t) == IF t = <<>> THEN 0 ELSE Cardinality({ i \in 1..Len(t) : t[i] = "\n" }) + 1

InitText == InitCPFIdle /\ InitDocIdle /\ InitPhotoIdle /\ InitTypeIdle /\ InitRunIdle /\ InitFaceIdle /\ InitCleanIdle /\ InitEmbedIdle /\ InitLateIdle

\* the OCR reads one more line of the document
AddLine ==
    /\ processor = "none"
    /\ NumLines(ocr_text) < MaxLines
    /\ \E l \in TextLines :
           ocr_text' = (IF ocr_text = <<>> THEN l ELSE ocr_text \o <<"\n">> \o l)
    /\ UNCHANGED <<form_pairs, processor, info_text, info_forms, result, cpfVars, photoVars, typeVars, runVars, faceVars, cleanVars, embedVars, lateVars>>

NextText == AddLine \/ ProcessTextract

SpecText == InitText /\ [][NextText]_vars

----------------------------------------------------------------------------
(* Documents with key-value pairs, handed to each of the processors         *)
(* (SpecDoc)                                                                *)

\* how many key-value pairs the form analysis gives at most
MaxPairs == 2

DocTexts ==
    { <<>>,
      <<"C", "P", "F", ":", " ", "1", "1", "1", ".", "4", "4", "4", ".", "7", "7", "7",
        "-", "3", "5">>,
      <<"N", "o", "m", "e", ":", " ", "M", "A", "R", "I", "A", " ", "S", "I", "L", "V",
        "A", "\n", "R", "G", ":", " ", "1", "2", ".", "3", "4", "5", ".", "6", "7",
        "8", "-", "9">>,
      <<"C", "P", "F", ":", " ", "1", "2", "3", ".", "4", "5", "6", ".", "7", "8", "9",
        "-", "0", "0">>,
      <<"c", "p", "f", " ", "5", "2", "9", "9", "8", "2", "2", "4", "7", "2", "5">>,
      <<"N", "I", "S", ":", " ", "5", "2", "9", "9", "8", "2", "2", "4", "7", "2", "5",
        "\n", "C", "P", "F", ":", " ", "5", "2", "9", ".", "9", "8", "2", ".", "2",
        "4", "7", "-", "2", "5">> }

\* the key-value pairs the form analysis may give
PairChoices ==
    { << <<"c", "p", "f">>,
         <<"5", "2", "9", ".", "9", "8", "2", ".", "2", "4", "7", "-", "2", "5">> >>,
      << <<"c", "p", "f">>,
         <<"1", "2", "3", ".", "4", "5", "6", ".", "7", "8", "9", "-", "0", "0">> >>,
      << <<"c", "p", "f", " ", "d", "o", " ", "t", "i", "t", "u", "l", "a", "r">>,
         <<"1", "1", "1", "4", "4", "4", "7", "7", "7", "3", "5">> >>,
      << <<"n", "i", "s">>,
         <<"5", "2", "9", "9", "8", "2", "2", "4", "7", "2", "5">> >>,
      << <<"n", "o", "m", "e">>,
         <<"J", "O", "A", "O", " ", "D", "A", " ", "S", "I", "L", "V", "A">> >>,
      << <<"n", "o", "m", "e">>,
         <<"A", "n", "a">> >>,
      << <<"r", "g">>,
         <<"9", "8", ".", "7", "6", "5", ".", "4", "3", "2", "-", "1">> >> }

InitDoc ==
    /\ InitCPFIdle
    /\ InitPhotoIdle /\ InitTypeIdle /\ InitRunIdle /\ InitFaceIdle /\ InitCleanIdle /\ InitEmbedIdle /\ InitLateIdle
    /\ ocr_text \in DocTexts
    /\ form_pairs = <<>>
    /\ processor = "none"
    /\ info_text = EmptyInfo
    /\ info_forms = EmptyInfo
    /\ result = Failure

\* the form analysis gives one more pair; a dict holds a key once
AddPair ==
    /\ processor = "none"
    /\ Len(form_pairs) < MaxPairs
    /\ \E pr \in PairChoices :
           /\ ~HasKey(form_pairs, pr[1])
           /\ form_pairs' = Append(form_pairs, pr)
    /\ UNCHANGED <<ocr_text, processor, info_text, info_forms, result, cpfVars, photoVars, typeVars, runVars, faceVars, cleanVars, embedVars, lateVars>>

NextDoc == AddPair \/ ProcessTextract \/ ProcessImproved \/ ProcessRobust

SpecDoc == InitDoc /\ [][NextDoc]_vars

----------------------------------------------------------------------------
(* The validator run on its own: validate_cpf applied to a string, and      *)
(* applied again after one check digit of an accepted string was altered.   *)

\* how many digits a string may hold beyond the eleven of a tax ID
MaxExtra == 2

\* nine leading digits the inputs are built on
Prefixes ==
    { <<"1", "1", "1", "4", "4", "4", "7", "7", "7">>,
      <<"1", "2", "3", "4", "5", "6", "7", "8", "9">>,
      <<"5", "2", "9", "9", "8", "2", "2", "4", "7">>,
      <<"0", "0", "0", "0", "0", "0", "0", "0", "0">>,
      <<"1", "1", "1", "1", "1", "1", "1", "1", "1">>,
      <<"9", "9", "9", "9", "9", "9", "9", "9", "9">>,
      <<"0", "0", "0", "0", "0", "0", "0", "0", "1">>,
      <<"9", "0", "0", "0", "0", "0", "0", "0", "0">> }

Renderings == {"bare", "formatted", "noisy"}

\* a digit string written bare, with the usual punctuation ("111.444.777-35"),
\* or with other characters around and between the digits
Render(d, r) ==
    CASE r = "bare" -> d
      [] r = "formatted" ->
             Slice(d, 0, 3) \o (IF Len(d) > 3 THEN <<".">> ELSE <<>>) \o Slice(d, 3, 6)
                 \o (IF Len(d) > 6 THEN <<".">> ELSE <<>>) \o Slice(d, 6, 9)
                 \o (IF Len(d) > 9 THEN <<"-">> ELSE <<>>) \o Slice(d, 9, Len(d))
      [] OTHER -> <<" ", "n">> \o Slice(d, 0, 5) \o <<"/", "x">> \o Slice(d, 5, Len(d)) \o <<"\n">>

\* the digit strings: every pair of check digits after every prefix, and the
\* accepted check digits cut short or followed by more digits
TooLong(d) == { d \o Slice(d, 0, k) : k \in 1..MaxExtra }

TooShort(d) == { Slice(d, 0, k) : k \in {0, 1, 9, 10} }

ElevenDigits == { p \o <<a, b>> : p \in Prefixes, a \in Digits, b \in Digits }

DigitStrings ==
    ElevenDigits
        \cup UNION { TooLong(d) \cup TooShort(d) : d \in { e \in ElevenDigits : validate_cpf(e) } }

CPFInputs == { Render(d, r) : d \in DigitStrings, r \in Renderings }

\* the position in s of its k-th digit (1-based), 0 when it has fewer
RECURSIVE DigitPos(_, _, _)
DigitPos(s, k, i) ==
    IF i > Len(s) THEN 0
    ELSE IF s[i] \in Digits THEN (IF k = 1 THEN i ELSE DigitPos(s, k - 1, i + 1))
    ELSE DigitPos(s, k, i + 1)

\* s with its k-th digit replaced by c
AlterDigit(s, k, c) == [s EXCEPT ![DigitPos(s, k, 1)] = c]

InitCPF ==
    /\ cpf_in \in CPFInputs
    /\ cpf_out = "unset"
    /\ cpf_prev = <<>>
    /\ prev_out = "unset"
    /\ InitDocIdle
    /\ InitPhotoIdle /\ InitTypeIdle /\ InitRunIdle /\ InitFaceIdle /\ InitCleanIdle /\ InitEmbedIdle /\ InitLateIdle

\* CPFValidator.validate_cpf(cpf_in)
Validate ==
    /\ cpf_out = "unset"
    /\ cpf_out' = validate_outcome(cpf_in)
    /\ UNCHANGED <<cpf_in, cpf_prev, prev_out, docVars, photoVars, typeVars, runVars, faceVars, cleanVars, embedVars, lateVars>>

\* one check digit of a string the validator accepted is replaced by another
\* digit and the validator is run on the outcome
AlterCheckDigit ==
    /\ cpf_out = "True"
    /\ prev_out = "unset"
    /\ \E k \in {10, 11}, c \in Digits :
           /\ c # cpf_in[DigitPos(cpf_in, k, 1)]
           /\ cpf_in' = AlterDigit(cpf_in, k, c)
           /\ cpf_out' = validate_outcome(AlterDigit(cpf_in, k, c))
    /\ cpf_prev' = cpf_in
    /\ prev_out' = cpf_out
    /\ UNCHANGED <<docVars, photoVars, typeVars, runVars, faceVars, cleanVars, embedVars, lateVars>>

NextCPF == Validate \/ AlterCheckDigit

SpecCPF == InitCPF /\ [][NextCPF]_vars

----------------------------------------------------------------------------
(* Claims about the validator (SpecCPF) *)

\* the characters of s that are decimal digits, in order
RECURSIVE DigitsLeft(_)
DigitsLeft(s) ==
    IF s = <<>> THEN <<>>
    ELSE (IF Head(s) \in Digits THEN <<Head(s)>> ELSE <<>>) \o DigitsLeft(Tail(s))

\* 11 - (n mod 11), with 10 and 11 mapped to 0
CheckValue(n) == IF 11 - (n % 11) >= 10 THEN 0 ELSE 11 - (n % 11)

\* c1: the weights 10, 9 .. 2 over the first nine digits
FirstCheck(d) ==
    CheckValue(IntOf(d[1]) * 10 + IntOf(d[2]) * 9 + IntOf(d[3]) * 8 + IntOf(d[4]) * 7
                   + IntOf(d[5]) * 6 + IntOf(d[6]) * 5 + IntOf(d[7]) * 4
                   + IntOf(d[8]) * 3 + IntOf(d[9]) * 2)

\* c2: the weights 11, 10 .. 2 over the first ten digits
SecondCheck(d) ==
    CheckValue(IntOf(d[1]) * 11 + IntOf(d[2]) * 10 + IntOf(d[3]) * 9 + IntOf(d[4]) * 8
                   + IntOf(d[5]) * 7 + IntOf(d[6]) * 6 + IntOf(d[7]) * 5
                   + IntOf(d[8]) * 4 + IntOf(d[9]) * 3 + IntOf(d[10]) * 2)

Acceptable(d) ==
    /\ Len(d) = 11
    /\ \E i \in 1..11 : d[i] # d[1]
    /\ IntOf(d[10]) = FirstCheck(d)
    /\ IntOf(d[11]) = SecondCheck(d)

\* C1: validate_cpf(s) returns, never raises, and returns True exactly when
\* the digits d left in s are eleven, not all the same, with d[9] = c1 and
\* d[10] = c2; the outcome is a function of the digits of s alone.
C1_ValidateIsCheckDigitTest ==
    cpf_out # "unset" =>
        cpf_out = (IF Acceptable(DigitsLeft(cpf_in)) THEN "True" ELSE "False")

\* C1 witness: a string with characters other than its eleven digits was
\* accepted
C1_Witness ==
    /\ cpf_out = "True"
    /\ Len(cpf_in) > 11
    /\ Len(DigitsLeft(cpf_in)) = 11

\* s and t are equal but for the k-th digit
DiffersAtDigit(s, t, k) ==
    /\ Len(s) = Len(t)
    /\ DigitPos(s, k, 1) > 0
    /\ \A i \in 1..Len(s) : (s[i] # t[i]) <=> (i = DigitPos(s, k, 1))
    /\ t[DigitPos(s, k, 1)] \in Digits

\* C2: an accepted string with d[9] or d[10] replaced by a different digit is
\* rejected; eleven identical digits are rejected; a string whose digits are
\* not eleven is rejected.
C2_SingleCheckDigitChangeRejected ==
    /\ (/\ prev_out = "True"
        /\ \E k \in {10, 11} : DiffersAtDigit(cpf_prev, cpf_in, k))
           => cpf_out = "False"
    /\ (/\ cpf_out # "unset"
        /\ Len(DigitsLeft(cpf_in)) = 11
        /\ \A i \in 1..11 : DigitsLeft(cpf_in)[i] = DigitsLeft(cpf_in)[1])
           => cpf_out = "False"
    /\ (cpf_out # "unset" /\ Len(DigitsLeft(cpf_in)) # 11) => cpf_out = "False"

\* C2 witness: the second check digit of an accepted, punctuated string was
\* altered and the outcome rejected
C2_Witness ==
    /\ prev_out = "True"
    /\ DiffersAtDigit(cpf_prev, cpf_in, 11)
    /\ Len(cpf_in) = 14
    /\ cpf_out = "False"

----------------------------------------------------------------------------
(* Claims about the text extraction (SpecText) *)

WelfareLabels ==
    { <<"n", "i", "s">>, <<"p", "i", "s">>, <<"p", "a", "s", "e", "p">>,
      <<"n", "i", "s", "/", "p", "i", "s", "/", "p", "a", "s", "e", "p">>,
      <<"p", "i", "s", "/", "p", "a", "s", "e", "p">> }

TaxLabels == { <<"c", "p", "f">> }

\* g is what may stand between a label and its value: blanks or line
\* breaks, with at most one colon among them
IsLabelGap(g) ==
    /\ \A i \in 1..Len(g) : g[i] \in {" ", "\n", ":"}
    /\ Cardinality({ i \in 1..Len(g) : g[i] = ":" }) <= 1

\* t ends with the label lab, in any letter case
EndsWithLabel(t, lab) ==
    /\ Len(t) >= Len(lab)
    /\ \A i \in 1..Len(lab) : LowerChar(t[Len(t) - Len(lab) + i]) = lab[i]

\* what starts at position j of t is preceded by one of the labels
LabelledAt(t, j, labs) ==
    \E a \in 1..j :
        /\ IsLabelGap(SubSeq(t, a, j - 1))
        /\ \E lab \in labs : EndsWithLabel(SubSeq(t, 1, a - 1), lab)

IsDigitAt(t, i) == i >= 1 /\ i <= Len(t) /\ t[i] \in Digits

\* a number of exactly eleven bare digits starts at j
BareAt(t, j) ==
    /\ \A i \in j..(j + 10) : IsDigitAt(t, i)
    /\ ~IsDigitAt(t, j - 1)
    /\ ~IsDigitAt(t, j + 11)

\* a number written ddd.ddd.ddd-dd starts at j
FormattedAt(t, j) ==
    /\ \A i \in {0, 1, 2, 4, 5, 6, 8, 9, 10, 12, 13} : IsDigitAt(t, j + i)
    /\ j + 13 <= Len(t)
    /\ t[j + 3] = "." /\ t[j + 7] = "." /\ t[j + 11] = "-"
    /\ ~IsDigitAt(t, j - 1)
    /\ ~IsDigitAt(t, j + 14)

\* the 11-digit numbers the text labels as NIS, PIS, PASEP, NIS/PIS/PASEP or
\* PIS/PASEP
WelfareNumbers(t) ==
    { SubSeq(t, j, j + 10) :
          j \in { i \in 1..Len(t) : BareAt(t, i) /\ LabelledAt(t, i, WelfareLabels) } }

\* every 11-digit number of the text, bare or punctuated, as its digits
ElevenDigitNumbers(t) ==
    { SubSeq(t, j, j + 10) : j \in { i \in 1..Len(t) : BareAt(t, i) } }
        \cup { DigitsLeft(SubSeq(t, j, j + 13)) : j \in { i \in 1..Len(t) : FormattedAt(t, i) } }

\* the valid tax IDs that follow a CPF label in the text, as their digits
CpfLabelledIDs(t) ==
    { d \in { SubSeq(t, j, j + 10) :
                  j \in { i \in 1..Len(t) : BareAt(t, i) /\ LabelledAt(t, i, TaxLabels) } }
              \cup { DigitsLeft(SubSeq(t, j, j + 13)) :
                         j \in { i \in 1..Len(t) :
                                     FormattedAt(t, i) /\ LabelledAt(t, i, TaxLabels) } } :
          Acceptable(d) }

\* ddd.ddd.ddd-dd
Punctuated(d) ==
    <<d[1], d[2], d[3], ".", d[4], d[5], d[6], ".", d[7], d[8], d[9], "-", d[10], d[11]>>

\* C3: the cpf that extract_information_from_text returns, without its
\* punctuation, is never an 11-digit number the text labels as NIS, PIS,
\* PASEP, NIS/PIS/PASEP or PIS/PASEP, and it is empty when every 11-digit
\* number of the text is such a welfare number.
C3_WelfareNumberNeverReturned ==
    (processor = "textract" /\ ocr_text # <<>>) =>
        /\ DigitsLeft(info_text.cpf) \notin WelfareNumbers(ocr_text)
        /\ (/\ ElevenDigitNumbers(ocr_text) # {}
            /\ ElevenDigitNumbers(ocr_text) \subseteq WelfareNumbers(ocr_text))
               => info_text.cpf = <<>>

\* C3 witness: a valid number stands under a welfare label and under a CPF
\* label in the same text, and the extraction returned no cpf
C3_Witness ==
    /\ processor = "textract"
    /\ CpfLabelledIDs(ocr_text) # {}
    /\ CpfLabelledIDs(ocr_text) \subseteq WelfareNumbers(ocr_text)
    /\ info_text.cpf = <<>>

\* C10 as stated: with no structured data, a text with a CPF label followed
\* by a valid tax ID gives that ID as ddd.ddd.ddd-dd with cpf_valido true.
C10_LabelledTaxIdReturned ==
    (/\ processor = "textract"
     /\ form_pairs = <<>>
     /\ CpfLabelledIDs(ocr_text) # {})
        => /\ result.cpf_valido
           /\ \E d \in CpfLabelledIDs(ocr_text) : result.cpf = Punctuated(d)

\* C10 amended: with no structured data, a text in which a CPF label is
\* followed by a valid tax ID that the text does not also label as a welfare
\* number gives one of those IDs as ddd.ddd.ddd-dd with cpf_valido true.
C10_LabelledTaxIdReturnedUnlessWelfare ==
    (/\ processor = "textract"
     /\ form_pairs = <<>>
     /\ CpfLabelledIDs(ocr_text) \ WelfareNumbers(ocr_text) # {})
        => /\ result.cpf_valido
           /\ \E d \in CpfLabelledIDs(ocr_text) \ WelfareNumbers(ocr_text) :
                  result.cpf = Punctuated(d)

\* C10 witness: the label on one line and the bare digits on the next
C10_Witness ==
    /\ processor = "textract"
    /\ form_pairs = <<>>
    /\ \E j \in 2..Len(ocr_text) :
           /\ BareAt(ocr_text, j)
           /\ ocr_text[j - 1] = "\n"
           /\ LabelledAt(ocr_text, j, TaxLabels)
           /\ result.cpf = Punctuated(SubSeq(ocr_text, j, j + 10))
    /\ result.cpf_valido

----------------------------------------------------------------------------
(* Claims about the merge of process_document (SpecDoc) *)

\* the pairs whose key names the tax ID
TaxPairs(pairs) == { j \in 1..Len(pairs) : Contains(pairs[j][1], <<"c", "p", "f">>) }

\* the value of pair j reads as a valid tax ID
ValidPair(pairs, j) == Acceptable(DigitsLeft(pairs[j][2]))

\* C7: in the merged result of process_document, for each of nome, cpf and
\* rg, the value the structured data gave (for cpf, a validated one) is the
\* one returned, whatever the free text gave; the free-text value is
\* returned only when the structured data gave nothing for the field.
C7_StructuredValueWins ==
    (processor # "none" /\ result.sucesso) =>
        \A f \in Fields :
            result[f] = (IF info_forms[f] # <<>> THEN info_forms[f] ELSE info_text[f])

\* C8: a structured tax-ID value that fails validation is never returned as
\* cpf; the pairs after it are still examined; and when no structured value
\* passes, the result carries the free-text candidate, or the empty string.
C8_InvalidStructuredTaxIdDiscarded ==
    (processor \in {"textract", "improved"} /\ result.sucesso) =>
        /\ \A j \in TaxPairs(form_pairs) :
               ~ValidPair(form_pairs, j)
                   => DigitsLeft(result.cpf) # DigitsLeft(form_pairs[j][2])
        /\ result.cpf # <<>> => Acceptable(DigitsLeft(result.cpf))
        /\ (/\ processor = "textract"
            /\ Len(form_pairs) = 2
            /\ TaxPairs(form_pairs) = {1, 2}
            /\ ~ValidPair(form_pairs, 1)
            /\ ValidPair(form_pairs, 2))
               => result.cpf = Punctuated(DigitsLeft(form_pairs[2][2]))
        /\ (\A j \in TaxPairs(form_pairs) : ~ValidPair(form_pairs, j))
               => result.cpf = info_text.cpf

\* C8 witness: the first pair under a CPF key failed validation, the second
\* passed and was returned, against a different number in the free text
C8_Witness ==
    /\ processor = "textract"
    /\ Len(form_pairs) = 2
    /\ TaxPairs(form_pairs) = {1, 2}
    /\ ~ValidPair(form_pairs, 1)
    /\ result.cpf = Punctuated(DigitsLeft(form_pairs[2][2]))
    /\ info_text.cpf # <<>>
    /\ info_text.cpf # result.cpf

\* C9: in every successful result cpf_valido is validate_cpf of the cpf of
\* that same result, false when the cpf is empty: the validity of the merged
\* value and of no other candidate.
C9_ValidityIsOfReturnedTaxId ==
    (processor # "none" /\ result.sucesso) =>
        (result.cpf_valido <=> (result.cpf # <<>> /\ Acceptable(DigitsLeft(result.cpf))))

\* C9 witness: the free text gave no cpf, the structured data gave a valid
\* one, and the result reports it valid
C9_Witness ==
    /\ processor = "textract"
    /\ result.sucesso
    /\ info_text.cpf = <<>>
    /\ info_forms.cpf # <<>>
    /\ result.cpf = info_forms.cpf
    /\ result.cpf_valido

----------------------------------------------------------------------------
(* Documents whose embedded images and pages vary (SpecPhoto)              *)

\* how many embedded images and how many pages a document holds at most
MaxImages == 2

MaxPages == 2

Face(area, method, enh, crops) ==
    [area |-> area, method |-> method, enh |-> enh, crops |-> crops]

\* the embedded images a document may hold (id is given when it is added)
ImageChoices ==
    { [area |-> 100, faces |-> <<>>, detect_raises |-> FALSE],
      [area |-> 100, faces |-> <<Face(10, "frontal_default", 0, TRUE)>>,
       detect_raises |-> FALSE],
      [area |-> 100, faces |-> <<Face(12, "profile", 0, TRUE),
                                 Face(12, "frontal_default", 1, TRUE)>>,
       detect_raises |-> FALSE],
      [area |-> 100, faces |-> <<Face(20, "frontal_alt", 0, FALSE)>>,
       detect_raises |-> FALSE],
      [area |-> 200, faces |-> <<Face(30, "frontal_alt", 2, TRUE)>>,
       detect_raises |-> FALSE],
      [area |-> 100, faces |-> <<Face(10, "frontal_default", 0, TRUE)>>,
       detect_raises |-> TRUE] }

Page(px, raises, faces, detect_raises, content) ==
    [px |-> px, raises |-> raises, faces |-> faces, detect_raises |-> detect_raises,
     content |-> content]

\* the pages a document may hold: px is the pixel count at scale 1, in
\* thousands; raises names the tier whose render of the page raises
PageChoices ==
    { Page(501, "never", <<>>, FALSE, TRUE),
      Page(501, "never", <<Face(40, "frontal_default", 0, TRUE),
                           Face(45, "profile", 1, TRUE)>>, FALSE, TRUE),
      Page(3000, "never", <<Face(90, "frontal_alt", 0, TRUE)>>, FALSE, TRUE),
      Page(6000, "never", <<>>, FALSE, FALSE),
      Page(501, "rendered", <<Face(40, "frontal_default", 0, TRUE)>>, FALSE, TRUE),
      Page(501, "full", <<>>, FALSE, TRUE),
      Page(501, "never", <<Face(50, "frontal_alt", 0, TRUE)>>, TRUE, FALSE) }

InitPhoto == InitCPFIdle /\ InitDocIdle /\ InitPhotoIdle /\ InitTypeIdle /\ InitRunIdle /\ InitFaceIdle /\ InitCleanIdle /\ InitEmbedIdle /\ InitLateIdle

\* extract_images_from_pdf hands on one more image
AddImage ==
    /\ photo_pc = "idle"
    /\ Len(embedded_images) < MaxImages
    /\ \E img \in ImageChoices :
           embedded_images' =
               Append(embedded_images,
                      [id |-> <<"embedded", Len(embedded_images) + 1>>,
                       area |-> img.area, faces |-> img.faces,
                       detect_raises |-> img.detect_raises])
    /\ UNCHANGED <<pdf_pages, photo_pc, photo_calls, best_image, extraction_method,
                   photo_path, photo_error, cpfVars, docVars, typeVars, runVars, faceVars, cleanVars, embedVars, lateVars>>

\* the PDF has one more page
AddPage ==
    /\ photo_pc = "idle"
    /\ Len(pdf_pages) < MaxPages
    /\ \E page \in PageChoices : pdf_pages' = Append(pdf_pages, page)
    /\ UNCHANGED <<embedded_images, photo_pc, photo_calls, best_image,
                   extraction_method, photo_path, photo_error, cpfVars, docVars, typeVars, runVars, faceVars, cleanVars, embedVars, lateVars>>

\* DocumentProcessor.process_document, "Extrai fotos com deteccao avancada e
\* fallback": save_ok is what save_photo returns
PhotoBlock(save_ok) ==
    LET found == detect_best_photo_or_fallback(embedded_images, pdf_pages)
    IN  /\ photo_calls' = found.calls
        /\ photo_error' = found.raised
        /\ best_image' = (IF found.raised THEN NoImage ELSE found.image)
        /\ extraction_method' = (IF found.raised THEN "none" ELSE found.tag)
        /\ photo_path' = (IF ~found.raised /\ found.image # NoImage /\ save_ok
                          THEN found.image ELSE NoImage)

\* the photo search of process_document alone
ProcessPhoto ==
    /\ photo_pc = "idle"
    /\ photo_pc' = "done"
    /\ \E save_ok \in BOOLEAN : PhotoBlock(save_ok)
    /\ UNCHANGED <<embedded_images, pdf_pages, cpfVars, docVars, typeVars, runVars, faceVars, cleanVars, embedVars, lateVars>>

NextPhoto == AddImage \/ AddPage \/ ProcessPhoto

SpecPhoto == InitPhoto /\ [][NextPhoto]_vars

----------------------------------------------------------------------------
(* Claims about the photo search (SpecPhoto) *)

\* the calls that go to the page renderer
RenderCalls ==
    {"extract_faces_from_rendered_pages(pdf_path)", "extract_full_page_images(pdf_path)"}

\* the detection over the embedded images runs to its end
EmbeddedDetectionCompletes ==
    \A i \in 1..Len(embedded_images) : ~embedded_images[i].detect_raises

\* the face candidates of the embedded images: <<image, face>>
EmbeddedCandidates ==
    { c \in (1..Len(embedded_images)) \X (1..2) :
        /\ c[2] <= Len(embedded_images[c[1]].faces)
        /\ embedded_images[c[1]].faces[c[2]].crops }

\* the pages the rendered-face tier gets an image of
RenderedPages ==
    { n \in 1..Len(pdf_pages) :
        /\ n <= 3
        /\ \A m \in 1..n : pdf_pages[m].raises # "rendered"
        /\ pdf_pages[n].px * 225 <= 6000 * 100 }

\* the detection over the rendered pages runs to its end
RenderedDetectionCompletes == \A n \in RenderedPages : ~pdf_pages[n].detect_raises

\* the face candidates of the rendered pages: <<page, face>>
RenderedCandidates ==
    { c \in RenderedPages \X (1..2) :
        /\ c[2] <= Len(pdf_pages[c[1]].faces)
        /\ pdf_pages[c[1]].faces[c[2]].crops }

\* the score of a face of relative area a/b: the area share, times 1.2 or
\* 1.1 for the two frontal detectors, times 1.1 on the original image, in
\* units of 1/100
Score(face, a, b) ==
    [num |-> a * (CASE face.method = "frontal_default" -> 12
                    [] face.method = "frontal_alt" -> 11
                    [] OTHER -> 10)
               * (IF face.enh = 0 THEN 11 ELSE 10),
     den |-> b * 100]

EmbeddedScore(c) ==
    Score(embedded_images[c[1]].faces[c[2]], embedded_images[c[1]].faces[c[2]].area,
          embedded_images[c[1]].area)

RenderedScore(c) ==
    Score(pdf_pages[c[1]].faces[c[2]], pdf_pages[c[1]].faces[c[2]].area,
          (pdf_pages[c[1]].px * 225) \div 100)

\* s scores strictly higher than t
Higher(s, t) == s.num * t.den > t.num * s.den

\* the method part of a tag
TagOf(face) == face.method \o "_enh" \o ToString(face.enh)

\* the search returned embedded candidate c, tagged as an embedded face
ReturnedEmbedded(c) ==
    /\ best_image = [src |-> "face", of |-> <<"embedded", c[1]>>, region |-> c[2]]
    /\ extraction_method = "face_detected_" \o TagOf(embedded_images[c[1]].faces[c[2]])

\* the search returned rendered candidate c, tagged as a rendered face
ReturnedRendered(c) ==
    /\ best_image = [src |-> "face", of |-> <<"rendered", c[1]>>, region |-> c[2]]
    /\ extraction_method = "face_rendered_" \o TagOf(pdf_pages[c[1]].faces[c[2]])

\* C4: whenever the detection over the embedded images yields at least one
\* candidate, the search returns a candidate no other embedded candidate
\* outscores, tagged face_detected_..., and none of the calls it made went to
\* extract_faces_from_rendered_pages or extract_full_page_images.
C4_EmbeddedFaceShortCircuits ==
    (photo_pc = "done" /\ EmbeddedDetectionCompletes /\ EmbeddedCandidates # {}) =>
        /\ \E c \in EmbeddedCandidates :
               /\ ReturnedEmbedded(c)
               /\ \A d \in EmbeddedCandidates : ~Higher(EmbeddedScore(d), EmbeddedScore(c))
        /\ \A n \in 1..Len(photo_calls) : photo_calls[n] \notin RenderCalls

\* C4 witness: the candidate collected first is outscored by a later one,
\* the later one is returned, the document has pages, and the only call made
\* is the detection over the embedded images
C4_Witness ==
    /\ photo_pc = "done"
    /\ pdf_pages # <<>>
    /\ RenderedCandidates # {}
    /\ \E c, d \in EmbeddedCandidates :
           /\ c[1] < d[1] \/ (c[1] = d[1] /\ c[2] < d[2])
           /\ Higher(EmbeddedScore(d), EmbeddedScore(c))
           /\ ReturnedEmbedded(d)
    /\ photo_calls = <<"detect_faces_advanced(images)">>

\* the tier a call belongs to
TierOfCall(call) ==
    CASE call = "detect_faces_advanced(images)" -> 1
      [] call = "extract_faces_from_rendered_pages(pdf_path)" -> 2
      [] call = "detect_faces_advanced(rendered_images)" -> 2
      [] call = "extract_full_page_images(pdf_path)" -> 3

\* the embedded-face tier ran to its end and yielded no candidate
EmbeddedYieldsNothing == EmbeddedDetectionCompletes /\ EmbeddedCandidates = {}

\* the rendered-face tier yields a candidate
RenderedYields == RenderedDetectionCompletes /\ RenderedCandidates # {}

\* the full-page tier yields the image of the first page
FirstPageYields == pdf_pages # <<>> /\ pdf_pages[1].raises # "full"

\* the first page, cropped to its content (whole when it shows none)
FirstPageCrop(img) ==
    /\ img.src = "page"
    /\ img.id = 1
    /\ img.cropped = pdf_pages[1].content

\* the four outcomes of a search
OutcomeEmbedded == \E c \in EmbeddedCandidates : ReturnedEmbedded(c)

OutcomeRendered == \E c \in RenderedCandidates : ReturnedRendered(c)

OutcomeFullPage ==
    pdf_pages # <<>> /\ FirstPageCrop(best_image) /\ extraction_method = "full_document"

OutcomeNone == best_image = NoImage /\ extraction_method = "none"

\* C5: the calls of a search go through the tiers in the order embedded
\* face, rendered face, full page, starting with the first; when the
\* embedded tier yields no candidate the result is the top rendered
\* candidate tagged face_rendered_... if the rendered tier yields one,
\* otherwise the content crop of the first page tagged full_document if the
\* full-page tier yields it, otherwise (None, "none"); and every finished
\* search shows exactly one of the four outcomes.
C5_TiersInOrderFirstYieldDecides ==
    photo_pc = "done" =>
        /\ photo_calls # <<>> /\ TierOfCall(photo_calls[1]) = 1
        /\ \A n \in 1..(Len(photo_calls) - 1) :
               TierOfCall(photo_calls[n]) <= TierOfCall(photo_calls[n + 1])
        /\ (EmbeddedYieldsNothing /\ RenderedYields) =>
               \E c \in RenderedCandidates :
                   /\ ReturnedRendered(c)
                   /\ \A d \in RenderedCandidates :
                          ~Higher(RenderedScore(d), RenderedScore(c))
        /\ (EmbeddedYieldsNothing /\ ~RenderedYields /\ FirstPageYields) => OutcomeFullPage
        /\ (EmbeddedYieldsNothing /\ ~RenderedYields /\ ~FirstPageYields) => OutcomeNone
        /\ Cardinality({ o \in {"embedded", "rendered", "full", "none"} :
                           \/ o = "embedded" /\ OutcomeEmbedded
                           \/ o = "rendered" /\ OutcomeRendered
                           \/ o = "full" /\ OutcomeFullPage
                           \/ o = "none" /\ OutcomeNone }) = 1

\* C5 witness: no embedded candidate, the first page is too large for the
\* rendered-face tier, a later page has the faces, and the higher-scored of
\* them is returned after the calls of the first two tiers only
C5_Witness ==
    /\ photo_pc = "done"
    /\ embedded_images # <<>>
    /\ EmbeddedYieldsNothing
    /\ 1 \notin RenderedPages
    /\ \E c, d \in RenderedCandidates :
           /\ Higher(RenderedScore(d), RenderedScore(c))
           /\ ReturnedRendered(d)
    /\ photo_calls = <<"detect_faces_advanced(images)",
                       "extract_faces_from_rendered_pages(pdf_path)",
                       "detect_faces_advanced(rendered_images)">>

\* a full-page outcome reached after both face tiers came up empty
X_C5_FullPageReached ==
    /\ photo_pc = "done"
    /\ EmbeddedYieldsNothing
    /\ RenderedPages # {}
    /\ OutcomeFullPage
    /\ ~best_image.cropped

\* a search that ends with nothing after all three tiers
X_C5_NoneReached ==
    /\ photo_pc = "done"
    /\ pdf_pages # <<>>
    /\ OutcomeNone
    /\ Len(photo_calls) >= 3

\* C6: an exception in a tier counts as that tier yielding nothing: the
\* search is not aborted, the next tier in order is run, and no call of the
\* search is made twice.
C6_TierExceptionAdvances ==
    photo_pc = "done" =>
        /\ ~photo_error
        /\ ~EmbeddedDetectionCompletes =>
               \E n \in 1..Len(photo_calls) : TierOfCall(photo_calls[n]) = 2
        /\ (EmbeddedYieldsNothing /\ ~RenderedDetectionCompletes) =>
               \E n \in 1..Len(photo_calls) : TierOfCall(photo_calls[n]) = 3
        /\ (EmbeddedYieldsNothing /\ pdf_pages # <<>> /\ pdf_pages[1].raises = "rendered") =>
               \E n \in 1..Len(photo_calls) : TierOfCall(photo_calls[n]) = 3
        /\ \A n, k \in 1..Len(photo_calls) : photo_calls[n] = photo_calls[k] => n = k

\* the part of C6 the code keeps: exceptions of the rendered-face and
\* full-page tiers are caught, the next tier runs, no call is made twice
X_C6_LaterTiersAdvance ==
    (photo_pc = "done" /\ EmbeddedDetectionCompletes) =>
        /\ ~photo_error
        /\ (EmbeddedCandidates = {} /\ ~RenderedDetectionCompletes) =>
               \E n \in 1..Len(photo_calls) : TierOfCall(photo_calls[n]) = 3
        /\ (EmbeddedCandidates = {} /\ pdf_pages # <<>> /\ pdf_pages[1].raises = "rendered") =>
               \E n \in 1..Len(photo_calls) : TierOfCall(photo_calls[n]) = 3
        /\ \A n, k \in 1..Len(photo_calls) : photo_calls[n] = photo_calls[k] => n = k

\* the embedded detection raised and the search ended there
X_C6_EmbeddedAbort ==
    /\ photo_pc = "done"
    /\ photo_error
    /\ photo_calls = <<"detect_faces_advanced(images)">>
    /\ RenderedYields

----------------------------------------------------------------------------
(* Texts that carry document signatures (SpecType)                         *)

\* how many lines such a text holds at most
MaxTypeLines == 2

\* the lines such a text is made of
TypeLines ==
    { <<"R", "E", "G", "I", "S", "T", "R", "O", " ", "G", "E", "R", "A",
        "L">>,
      <<"I", "d", "e", "n", "t", "i", "d", "a", "d", "e">>,
      <<"R", "E", "P", "U^", "B", "L", "I", "C", "A", " ", "F", "E", "D",
        "E", "R", "A", "T", "I", "V", "A", " ", "D", "O", " ", "B", "R", "A",
        "S", "I", "L">>,
      <<"P", "A", "S", "S", "A", "P", "O", "R", "T", "E">>,
      <<"C", "a", "t", "e", "g", "o", "r", "i", "a", ":", " ", "B">>,
      <<"V", "a", "l", "i", "d", "a", "d", "e">>,
      <<"N", "o", "m", "e", ":", " ", "A", "n", "a">>,
      <<"R", "G", ":", " ", "1", "2", "3">>,
      <<"R", "e", "g", "i", "s", "t", "r", "o", ":", " ", "4", "5">>,
      <<"C", "A", "R", "T", "E", "I", "R", "A", " ", "N", "A", "C", "I",
        "O", "N", "A", "L", " ", "D", "E", " ", "H", "A", "B", "I", "L", "I",
        "T", "A", "C,", "A~", "O">>,
      <<"T", "i", "p", "o", ":", " ", "P">>,
      <<"c", "a", "r", "t", "e", "i", "r", "a", " ", "d", "e", " ", "i",
        "d", "e", "n", "t", "i", "d", "a", "d", "e">> }

InitType == InitCPFIdle /\ InitDocIdle /\ InitPhotoIdle /\ InitTypeIdle /\ InitRunIdle /\ InitFaceIdle /\ InitCleanIdle /\ InitEmbedIdle /\ InitLateIdle

\* the OCR gives one more line
AddTypeLine ==
    /\ classifier = "none"
    /\ NumLines(ocr_text) < MaxTypeLines
    /\ \E line \in TypeLines :
           ocr_text' = IF ocr_text = <<>> THEN line ELSE ocr_text \o <<"\n">> \o line
    /\ UNCHANGED <<form_pairs, processor, info_text, info_forms, result, doc_type,
                   classifier, cpfVars, photoVars, runVars, faceVars, cleanVars, embedVars, lateVars>>

\* DocumentProcessorTextract.identify_document_type
IdentifyTextract ==
    /\ classifier = "none"
    /\ classifier' = "textract"
    /\ doc_type' = identify_document_type(ocr_text)
    /\ UNCHANGED <<cpfVars, docVars, photoVars, runVars, faceVars, cleanVars, embedVars, lateVars>>

\* RobustDocumentProcessor.identify_document_type
IdentifyRobust ==
    /\ classifier = "none"
    /\ classifier' = "robust"
    /\ doc_type' = rob_identify_document_type(ocr_text)
    /\ UNCHANGED <<cpfVars, docVars, photoVars, runVars, faceVars, cleanVars, embedVars, lateVars>>

NextType == AddTypeLine \/ IdentifyTextract \/ IdentifyRobust

SpecType == InitType /\ [][NextType]_vars

----------------------------------------------------------------------------
(* Claims about identify_document_type (SpecType) *)

\* the signature table of the processor that classified
SignaturesUsed ==
    IF classifier = "robust" THEN rob_document_patterns ELSE document_patterns

\* the number of places of the text at which a signature matches, whatever
\* the case of the letters
RECURSIVE MatchCount(_, _)
MatchCount(patterns, k) ==
    IF k > Len(patterns) THEN 0
    ELSE Cardinality(MatchStarts(ocr_text, patterns[k], 1)) + MatchCount(patterns, k + 1)

\* the score of a type: the matches of its signatures, summed
TypeScore(ty) == MatchCount(SignaturesUsed[ty], 1)

TypeNames == {"RG", "CNH", "PASSAPORTE"}

\* C11: the type whose score is above 0 and strictly above the score of
\* every other type is the one identify_document_type returns, and None is
\* returned when every type scores 0.
C11_StrictlyHighestTypeReturned ==
    classifier # "none" =>
        /\ \A ty \in TypeNames :
               (TypeScore(ty) > 0 /\ \A o \in TypeNames \ {ty} : TypeScore(o) < TypeScore(ty))
                   => doc_type = ty
        /\ (\A ty \in TypeNames : TypeScore(ty) = 0) => doc_type = "None"

\* C11 witness: two passport signatures against one of the national ID, and
\* the passport type, which comes last in the table, is returned
C11_Witness ==
    /\ classifier = "textract"
    /\ TypeScore("PASSAPORTE") = 2
    /\ TypeScore("RG") = 1
    /\ TypeScore("CNH") = 0
    /\ doc_type = "PASSAPORTE"

\* all types score 0 on a text that is not empty, and None is returned
X_C11_Unclassified ==
    /\ classifier = "textract"
    /\ ocr_text # <<>>
    /\ \A ty \in TypeNames : TypeScore(ty) = 0
    /\ doc_type = "None"

\* C12: when two or more types share the highest score and it is above 0,
\* identify_document_type returns None and none of the tied types.
C12_TieIsUnclassified ==
    (/\ classifier # "none"
     /\ \E ty, o \in TypeNames :
            /\ ty # o
            /\ TypeScore(ty) > 0
            /\ TypeScore(ty) = TypeScore(o)
            /\ \A q \in TypeNames : TypeScore(q) <= TypeScore(ty))
        => doc_type = "None"

\* what the code does on a tie: the tied type that comes first in the table
\* is returned
X_C12_FirstTiedTypeReturned ==
    (/\ classifier # "none"
     /\ \E ty, o \in TypeNames :
            /\ ty # o
            /\ TypeScore(ty) > 0
            /\ TypeScore(ty) = TypeScore(o)
            /\ \A q \in TypeNames : TypeScore(q) <= TypeScore(ty))
        => \E k \in 1..3 :
               /\ doc_type = DocTypes[k]
               /\ \A q \in TypeNames : TypeScore(q) <= TypeScore(DocTypes[k])
               /\ \A j \in 1..(k - 1) : TypeScore(DocTypes[j]) < TypeScore(DocTypes[k])

----------------------------------------------------------------------------
(* process_document as a whole: document_processor_textract.py and          *)
(* bkp/document_processor_advanced_complete.py                              *)

\* extract_text_with_textract: every LINE block followed by a newline
adv_text_of(lines) == IF lines = <<>> THEN <<>> ELSE lines \o <<"\n">>

\* advanced_complete extract_information_from_text, the cpf loop: the first
\* pattern whose first match has 11 digits decides, nothing is validated
RECURSIVE adv_cpf_from(_, _)
adv_cpf_from(text, k) ==
    IF k > Len(imp_cpf_patterns) THEN <<>>
    ELSE LET matches == FindAll(text, imp_cpf_patterns[k])
         IN  IF matches # <<>> /\ Len(clean_cpf(matches[1])) = 11
             THEN format_cpf(clean_cpf(matches[1]))
             ELSE adv_cpf_from(text, k + 1)

\* the loop of the other fields: matches[0].strip() of the first pattern
\* that matches
RECURSIVE adv_first_from(_, _, _)
adv_first_from(text, patterns, k) ==
    IF k > Len(patterns) THEN <<>>
    ELSE LET matches == FindAll(text, patterns[k])
         IN  IF matches # <<>> THEN Strip(matches[1])
             ELSE adv_first_from(text, patterns, k + 1)

\* advanced_complete extract_information_from_text; a key that is absent
\* reads as '' in the record
adv_extract_information_from_text(text) ==
    [nome |-> adv_first_from(text, imp_nome_patterns, 1),
     cpf |-> adv_cpf_from(text, 1),
     rg |-> adv_first_from(text, imp_rg_patterns, 1)]

\* the record of the outer "except Exception as e" of advanced_complete
adv_failure ==
    [state |-> "returned", by |-> "advanced", sucesso |-> FALSE, nome |-> <<>>,
     cpf |-> <<>>, rg |-> <<>>, cpf_valido |-> FALSE, foto_extraida |-> NoImage,
     extraction_method |-> "error"]

\* the result record of advanced_complete
adv_result(info, photo, method) ==
    [state |-> "returned", by |-> "advanced", sucesso |-> TRUE, nome |-> info.nome,
     cpf |-> info.cpf, rg |-> info.rg, cpf_valido |-> cpf_valido_of(info),
     foto_extraida |-> photo, extraction_method |-> method]

\* {"erro": ..., "sucesso": False} of document_processor_textract.py; the
\* keys the record does not carry are written empty
tex_failure ==
    [state |-> "returned", by |-> "textract", sucesso |-> FALSE, nome |-> <<>>,
     cpf |-> <<>>, rg |-> <<>>, cpf_valido |-> FALSE, foto_extraida |-> NoImage,
     extraction_method |-> "absent"]

\* resultado of document_processor_textract.py (it has no extraction_method)
tex_result(info, photo) ==
    [state |-> "returned", by |-> "textract", sucesso |-> TRUE, nome |-> info.nome,
     cpf |-> info.cpf, rg |-> info.rg, cpf_valido |-> cpf_valido_of(info),
     foto_extraida |-> photo, extraction_method |-> "absent"]

\* process_document left by an exception
Raised(who) == [state |-> "raised", by |-> who]

\* detect_face_in_images has no handler: the import of the detector or any
\* image the detector cannot read raises
tex_detect_raises(images) == \E k \in 1..Len(images) : images[k].detect_raises

\* what detect_face_in_images may return: None, or one of the images (cut
\* to its face or whole)
tex_photo_choices(images) == {NoImage} \cup { images[k] : k \in 1..Len(images) }

\* what the OCR may give for the first page
RunTexts ==
    { <<>>,
      <<"C", "P", "F", ":", " ", "1", "1", "1", ".", "4", "4", "4", ".", "7", "7", "7", "-", "3", "5">>,
      <<"N", "o", "m", "e", ":", " ", "M", "A", "R", "I", "A", " ", "S", "I", "L", "V", "A", "\n", "R", "G", ":", " ", "1", "2", ".", "3", "4", "5", ".", "6", "7", "8", "-", "9">>,
      <<"V", "a", "l", "i", "d", "a", "d", "e", " ", "2", "0", "3", "0">> }

\* what the form analysis may give
RunPairLists ==
    { <<>>,
      << << <<"c", "p", "f">>, <<"5", "2", "9", ".", "9", "8", "2", ".", "2", "4", "7", "-", "2", "5">> >> >> }

Embedded(img) ==
    [id |-> <<"embedded", 1>>, area |-> img.area, faces |-> img.faces,
     detect_raises |-> img.detect_raises]

\* what extract_images_from_pdf may hand on
RunImageLists ==
    { <<>>,
      <<Embedded([area |-> 100, faces |-> <<>>, detect_raises |-> FALSE])>>,
      <<Embedded([area |-> 100, faces |-> <<Face(10, "frontal_default", 0, TRUE)>>,
                  detect_raises |-> FALSE])>>,
      <<Embedded([area |-> 100, faces |-> <<Face(10, "frontal_default", 0, TRUE)>>,
                  detect_raises |-> TRUE])>> }

\* the pages the PDF may hold
RunPageLists ==
    { <<>>,
      <<Page(501, "never", <<>>, FALSE, TRUE)>>,
      <<Page(501, "never", <<Face(40, "frontal_default", 0, TRUE)>>, FALSE, TRUE)>>,
      <<Page(501, "full", <<>>, FALSE, TRUE)>> }

\* a file that is missing has no pages; without a page, or when the service
\* fails, there is no text, and a PDF without pages holds no image
InitRun ==
    /\ InitCPFIdle /\ InitTypeIdle /\ InitFaceIdle /\ InitCleanIdle /\ InitEmbedIdle /\ InitLateIdle
    /\ pdf_state \in {"ok", "missing"}
    /\ ocr_fails \in BOOLEAN
    /\ output_dir_ok \in BOOLEAN
    /\ run = NotRun
    /\ pdf_pages \in RunPageLists
    /\ pdf_state = "missing" => pdf_pages = <<>>
    /\ embedded_images \in RunImageLists
    /\ pdf_pages = <<>> => embedded_images = <<>>
    /\ ocr_text \in RunTexts
    /\ form_pairs \in RunPairLists
    /\ (pdf_pages = <<>> \/ ocr_fails) => (ocr_text = <<>> /\ form_pairs = <<>>)
    /\ processor = "none"
    /\ info_text = EmptyInfo
    /\ info_forms = EmptyInfo
    /\ result = Failure
    /\ photo_pc = "idle"
    /\ photo_calls = <<>>
    /\ best_image = NoImage
    /\ extraction_method = "none"
    /\ photo_path = NoImage
    /\ photo_error = FALSE

\* DocumentProcessorTextract.process_document: save_ok is what save_photo
\* returns, photo what detect_face_in_images returns when it returns
tex_process_document(save_ok, photo) ==
    IF pdf_state = "missing" THEN tex_failure
    ELSE IF ~output_dir_ok THEN Raised("textract")
    ELSE IF pdf_pages = <<>> THEN tex_failure
    ELSE IF ocr_fails THEN tex_failure
    ELSE IF ocr_text = <<>> THEN tex_failure
    ELSE LET info == merge_textract(extract_information_from_forms(form_pairs),
                                    extract_information_from_text(ocr_text))
         IN  IF embedded_images = <<>> THEN tex_result(info, NoImage)
             ELSE IF tex_detect_raises(embedded_images) THEN tex_failure
             ELSE IF photo # NoImage /\ save_ok THEN tex_result(info, photo)
             ELSE tex_result(info, NoImage)

RunTextract ==
    /\ run = NotRun
    /\ \E save_ok \in BOOLEAN :
           \E photo \in tex_photo_choices(embedded_images) :
               run' = tex_process_document(save_ok, photo)
    /\ UNCHANGED <<pdf_state, ocr_fails, output_dir_ok, cpfVars, docVars, photoVars,
                   typeVars, faceVars, cleanVars, embedVars, lateVars>>

\* advanced_complete DocumentProcessor.process_document
RunAdvanced ==
    /\ run = NotRun
    /\ IF pdf_state = "missing" \/ ocr_fails
       THEN /\ run' = adv_failure
            /\ UNCHANGED photoVars
       ELSE /\ photo_pc' = "done"
            /\ \E save_ok \in BOOLEAN : PhotoBlock(save_ok)
            /\ run' = adv_result(merge_improved(imp_info_forms(form_pairs),
                                     adv_extract_information_from_text(
                                         adv_text_of(ocr_text))),
                                 photo_path', extraction_method')
            /\ UNCHANGED <<embedded_images, pdf_pages>>
    /\ UNCHANGED <<pdf_state, ocr_fails, output_dir_ok, cpfVars, docVars, typeVars,
                   faceVars, cleanVars, embedVars, lateVars>>

NextRun == RunTextract \/ RunAdvanced

SpecRun == InitRun /\ [][NextRun]_vars

----------------------------------------------------------------------------
(* Claims about the whole run (SpecRun)                                     *)

\* the OCR gave a text that is not empty
TextExtracted ==
    pdf_state = "ok" /\ pdf_pages # <<>> /\ ~ocr_fails /\ ocr_text # <<>>

\* C13: process_document never raises, reports sucesso = False only when no
\* text could be extracted, and for a text that is not empty returns
\* sucesso = True also when the photo could not be detected, cut or saved,
\* then without a photo
C13_FailureOnlyWithoutText ==
    run # NotRun =>
        /\ run.state = "returned"
        /\ TextExtracted => run.sucesso
        /\ ~run.sucesso => ~TextExtracted

\* the run of document_processor_textract.py that C13 does not describe: a
\* text was read, the photo detection raised, the record says sucesso = False
X_C13_PhotoFailureFailsRun ==
    /\ run # NotRun /\ run.state = "returned" /\ run.by = "textract"
    /\ TextExtracted
    /\ tex_detect_raises(embedded_images)
    /\ ~run.sucesso

\* os.makedirs stands before the try of document_processor_textract.py
X_C13_TextractRaises == run = Raised("textract")

\* advanced_complete does what C13 says
X_C13_AdvancedConforms ==
    (run # NotRun /\ run.by = "advanced") =>
        /\ run.state = "returned"
        /\ TextExtracted => run.sucesso
        /\ ~run.sucesso => ~TextExtracted
        /\ (TextExtracted /\ photo_error) => (run.sucesso /\ run.foto_extraida = NoImage)

\* a run of advanced_complete whose photo search raised and that succeeded
X_C13_AdvancedPhotoError ==
    /\ run # NotRun /\ run.by = "advanced" /\ TextExtracted /\ photo_error
    /\ run.sucesso /\ run.foto_extraida = NoImage

\* a record of advanced_complete says that no photo came out of the run
SourceIsNone == run.extraction_method \in {"none", "error"}

\* C14: the photo is absent exactly when the source is none:
\* detect_best_photo_or_fallback returns no image if and only if its tag is
\* 'none', and in every record of process_document foto_extraida is None if
\* and only if extraction_method is 'none' ('error' for a failed run), also
\* when saving the photo fails
C14_PhotoAbsentIffSourceNone ==
    /\ photo_pc = "done" => (best_image = NoImage <=> extraction_method = "none")
    /\ (run # NotRun /\ run.by = "advanced") =>
           (run.foto_extraida = NoImage <=> SourceIsNone)

\* what detect_best_photo_or_fallback returns does conform
X_C14_ReturnedPairConforms ==
    photo_pc = "done" => (best_image = NoImage <=> extraction_method = "none")

\* a record with a source tag and no photo: save_photo returned False
X_C14_TagWithoutPhoto ==
    /\ run # NotRun /\ run.by = "advanced" /\ run.sucesso
    /\ run.foto_extraida = NoImage
    /\ run.extraction_method \notin {"none", "error"}
    /\ best_image # NoImage

\* a photo never comes without a source tag
X_C14_PhotoHasTag ==
    (run # NotRun /\ run.by = "advanced" /\ run.foto_extraida # NoImage) =>
        ~SourceIsNone

----------------------------------------------------------------------------
(* Face detection on one image (SpecFace): AdvancedFaceDetector and         *)
(* DocumentProcessor.detect_faces_advanced of                               *)
(* bkp/document_processor_advanced_complete.py.  A hit is what one cascade  *)
(* returns on one enhanced version of the image: [enh, method, rect,       *)
(* crops]; crops says whether crop_face_3x4 returns a region for it.       *)

\* face_cascades, in the order __init__ loads them
Cascades == <<"frontal_default", "frontal_alt", "profile">>

\* the versions enhance_image_for_detection returns: the original, the
\* equalized, the contrast-adjusted and the blurred one
NumVariants == 4

CascadeIndex(method) == CHOOSE k \in 1..Len(Cascades) : Cascades[k] = method

Rect(x, y, w, h) == [x |-> x, y |-> y, w |-> w, h |-> h]

Min2(a, b) == IF a < b THEN a ELSE b

Max2(a, b) == IF a > b THEN a ELSE b

\* overlap_x * overlap_y
overlap_area(r1, r2) ==
    Max2(0, Min2(r1.x + r1.w, r2.x + r2.w) - Max2(r1.x, r2.x))
    * Max2(0, Min2(r1.y + r1.h, r2.y + r2.h) - Max2(r1.y, r2.y))

\* the overlap measured against the larger of the two areas
overlaps_half_of_larger(r1, r2) ==
    2 * overlap_area(r1, r2) > Max2(r1.w * r1.h, r2.w * r2.h)

\* overlap_area > 0.5 * min(area1, area2)
overlaps_half(r1, r2) ==
    2 * overlap_area(r1, r2) > Min2(r1.w * r1.h, r2.w * r2.h)

\* the loop of remove_duplicate_faces: a face is kept unless it overlaps a
\* face kept before it
RECURSIVE unique_faces_from(_, _, _)
unique_faces_from(faces, k, unique_faces) ==
    IF k > Len(faces) THEN unique_faces
    ELSE IF \E u \in 1..Len(unique_faces) :
                overlaps_half(faces[k].rect, unique_faces[u].rect)
         THEN unique_faces_from(faces, k + 1, unique_faces)
         ELSE unique_faces_from(faces, k + 1, Append(unique_faces, faces[k]))

\* AdvancedFaceDetector.remove_duplicate_faces
remove_duplicate_faces(faces) ==
    IF Len(faces) <= 1 THEN faces ELSE unique_faces_from(faces, 1, <<>>)

\* AdvancedFaceDetector.detect_faces_multiple_methods on version enh: the
\* hits of every cascade on that version, then without duplicates
detect_faces_multiple_methods(hits, enh) ==
    remove_duplicate_faces(SelectSeq(hits, LAMBDA hit : hit.enh = enh))

\* the faces the loop over enhanced_images meets, version after version
RECURSIVE faces_over_variants(_, _)
faces_over_variants(hits, enh) ==
    IF enh >= NumVariants THEN <<>>
    ELSE detect_faces_multiple_methods(hits, enh) \o faces_over_variants(hits, enh + 1)

\* face_area = w * h of a hit, with what the later loop reads of it
face_of_hit(hit) ==
    [area |-> hit.rect.w * hit.rect.h, method |-> hit.method, enh |-> hit.enh,
     crops |-> hit.crops, rect |-> hit.rect]

\* the image analysed, 20 x 20, with the faces found on its versions
analysed_image(hits) ==
    LET found == faces_over_variants(hits, 0)
    IN  [id |-> <<"embedded", 1>>, area |-> 20 * 20,
         faces |-> [k \in 1..Len(found) |-> face_of_hit(found[k])],
         detect_raises |-> FALSE]

\* how many hits the cascades give on one image at most
MaxHits == 3

\* the regions a cascade may report
RectChoices ==
    { [rect |-> Rect(0, 0, 10, 10), crops |-> TRUE],
      [rect |-> Rect(1, 1, 10, 10), crops |-> FALSE],
      [rect |-> Rect(12, 12, 6, 6), crops |-> TRUE],
      [rect |-> Rect(0, 12, 8, 8), crops |-> TRUE] }

\* the versions on which a cascade finds something: the original, the
\* equalized and the blurred one
HitVariants == {0, 1, NumVariants - 1}

\* hit a is met by the loops no later than hit b
LoopOrder(a, b) ==
    \/ a.enh < b.enh
    \/ a.enh = b.enh /\ CascadeIndex(a.method) <= CascadeIndex(b.method)

InitFace ==
    /\ InitCPFIdle /\ InitDocIdle /\ InitPhotoIdle /\ InitTypeIdle /\ InitRunIdle
    /\ InitFaceIdle /\ InitCleanIdle /\ InitEmbedIdle /\ InitLateIdle

\* a cascade reports one more region on one version of the image
AddHit ==
    /\ face_candidates = NoCandidates
    /\ Len(cascade_hits) < MaxHits
    /\ \E enh \in HitVariants, k \in 1..Len(Cascades), c \in RectChoices :
           LET hit == [enh |-> enh, method |-> Cascades[k], rect |-> c.rect,
                       crops |-> c.crops]
           IN  /\ cascade_hits # <<>> => LoopOrder(cascade_hits[Len(cascade_hits)], hit)
               /\ cascade_hits' = Append(cascade_hits, hit)
    /\ UNCHANGED <<face_candidates, cpfVars, docVars, photoVars, typeVars, runVars, cleanVars, embedVars, lateVars>>

\* DocumentProcessor.detect_faces_advanced on the image
DetectFaces ==
    /\ face_candidates = NoCandidates
    /\ face_candidates' =
           [state |-> "returned",
            faces |-> detect_faces_advanced(<<analysed_image(cascade_hits)>>).faces]
    /\ UNCHANGED <<cascade_hits, cpfVars, docVars, photoVars, typeVars, runVars, cleanVars, embedVars, lateVars>>

NextFace == AddHit \/ DetectFaces

SpecFace == InitFace /\ [][NextFace]_vars

\* the region candidate c of the returned sequence was cut from
RegionOf(c) == analysed_image(cascade_hits).faces[c.image.region].rect

\* C15: in the sequence face detection returns for one image no two
\* candidates come from regions whose intersection exceeds half of the
\* smaller region: of the same face found by several cascades or on several
\* enhanced versions only the first seen survives
C15_NoTwoCandidatesOverlap ==
    face_candidates # NoCandidates =>
        \A i, j \in 1..Len(face_candidates.faces) :
            i # j => ~overlaps_half(RegionOf(face_candidates.faces[i]),
                                    RegionOf(face_candidates.faces[j]))

\* candidates found on one and the same version never overlap
X_C15_NoOverlapWithinOneVersion ==
    face_candidates # NoCandidates =>
        \A i, j \in 1..Len(face_candidates.faces) :
            (i # j /\ analysed_image(cascade_hits).faces[face_candidates.faces[i].image.region].enh
                      = analysed_image(cascade_hits).faces[face_candidates.faces[j].image.region].enh)
            => ~overlaps_half(RegionOf(face_candidates.faces[i]), RegionOf(face_candidates.faces[j]))

\* two cascades found the same region on one version and one candidate came
\* back
X_C15_DuplicateOfCascadesRemoved ==
    /\ face_candidates # NoCandidates
    /\ Len(cascade_hits) = 2
    /\ cascade_hits[1].enh = cascade_hits[2].enh
    /\ cascade_hits[1].method # cascade_hits[2].method
    /\ overlaps_half(cascade_hits[1].rect, cascade_hits[2].rect)
    /\ Len(face_candidates.faces) = 1
    /\ face_candidates.faces[1].info = detection_info(face_of_hit(cascade_hits[1]))

\* the same region found on two versions comes back twice
X_C15_SameFaceOnTwoVersions ==
    /\ face_candidates # NoCandidates
    /\ Len(cascade_hits) = 2
    /\ cascade_hits[1].enh # cascade_hits[2].enh
    /\ cascade_hits[1].rect = cascade_hits[2].rect
    /\ Len(face_candidates.faces) = 2

\* all_faces as the loops collected it, before the sort
Collected == all_faces_from(<<analysed_image(cascade_hits)>>, 1)

\* where a returned candidate stood in the list collected
CollectedAt(c) == CHOOSE k \in 1..Len(Collected) : Collected[k] = c

SameConfidence(c1, c2) == ~Greater(c1.conf, c2.conf) /\ ~Greater(c2.conf, c1.conf)

\* C16: the sequence detect_faces_advanced returns is ordered by confidence,
\* highest first, it is a permutation of the candidates collected, and
\* candidates of equal confidence keep their detection order
C16_SortedByConfidenceStable ==
    face_candidates # NoCandidates =>
        LET returned == face_candidates.faces
        IN  /\ \A i \in 1..(Len(returned) - 1) :
                   ~Greater(returned[i + 1].conf, returned[i].conf)
            /\ Len(returned) = Len(Collected)
            /\ \A k \in 1..Len(Collected) :
                   Cardinality({ i \in 1..Len(returned) : returned[i] = Collected[k] })
                   = Cardinality({ j \in 1..Len(Collected) : Collected[j] = Collected[k] })
            /\ \A i, j \in 1..Len(returned) :
                   (i < j /\ SameConfidence(returned[i], returned[j]))
                   => CollectedAt(returned[i]) < CollectedAt(returned[j])

\* three regions that do not overlap, collected as middle, lowest, highest,
\* came back as highest, middle, lowest
C16_Witness ==
    /\ face_candidates # NoCandidates
    /\ Len(Collected) = 3
    /\ Greater(Collected[3].conf, Collected[1].conf)
    /\ Greater(Collected[1].conf, Collected[2].conf)
    /\ \A i, j \in 1..3 : i # j => overlap_area(RegionOf(Collected[i]),
                                                 RegionOf(Collected[j])) = 0
    /\ face_candidates.faces = <<Collected[3], Collected[1], Collected[2]>>

\* two candidates of equal confidence came back in their detection order,
\* after a candidate collected later
X_C16_TieKeepsDetectionOrder ==
    /\ face_candidates # NoCandidates
    /\ Len(Collected) = 3
    /\ SameConfidence(Collected[1], Collected[2])
    /\ Greater(Collected[3].conf, Collected[1].conf)
    /\ face_candidates.faces = <<Collected[3], Collected[1], Collected[2]>>

----------------------------------------------------------------------------
(* Documents that show a name (SpecName)                                    *)

\* how many lines the OCR reads at most
MaxNameLines == 2

\* the lines a text is made of
NameLines ==
    { <<"N", "o", "m", "e", ":", " ", "F", "E", "R", "N", "A", "N", "D", "O">>,
      <<"N", "o", "m", "e", ":", " ", "A", "n", "a">>,
      <<"N", "o", "m", "e", ":", " ", "M", "A", "R", "I", "A", " ", "S", "I", "L", "V", "A">>,
      <<"T", "i", "t", "u", "l", "a", "r", ":", " ", "J", "O", "A", "O", " ", "L", "I", "M", "A">>,
      <<"R", "G", ":", " ", "1", "2", ".", "3", "4", "5">>,
      <<"C", "P", "F", ":", " ", "1", "1", "1", ".", "4", "4", "4", ".", "7", "7", "7", "-", "3", "5">>,
      <<"F", "E", "R", "N", "A", "N", "D", "O", " ", "A", "L", "B", "U", "Q", "U", "E", "R", "Q", "U", "E">> }

\* the pairs the form analysis may give under the key nome
NamePairs ==
    { << <<"n", "o", "m", "e">>, <<"F", "E", "R", "N", "A", "N", "D", "O">> >>,
      << <<"n", "o", "m", "e">>, <<"A", "n", "a">> >>,
      << <<"n", "o", "m", "e">>, <<"M", "A", "R", "I", "A", " ", "S", "I", "L", "V", "A">> >> }

InitName ==
    /\ InitCPFIdle /\ InitDocIdle /\ InitPhotoIdle /\ InitTypeIdle /\ InitRunIdle
    /\ InitFaceIdle /\ InitCleanIdle /\ InitEmbedIdle /\ InitLateIdle

\* the OCR reads one more line
AddNameLine ==
    /\ processor = "none"
    /\ NumLines(ocr_text) < MaxNameLines
    /\ \E line \in NameLines :
           ocr_text' = (IF ocr_text = <<>> THEN line ELSE ocr_text \o <<"\n">> \o line)
    /\ UNCHANGED <<form_pairs, processor, info_text, info_forms, result, cpfVars,
                   photoVars, typeVars, runVars, faceVars, cleanVars, embedVars, lateVars>>

\* the form analysis gives the pair of the name; a dict holds a key once
AddNamePair ==
    /\ processor = "none"
    /\ form_pairs = <<>>
    /\ \E pr \in NamePairs : form_pairs' = <<pr>>
    /\ UNCHANGED <<ocr_text, processor, info_text, info_forms, result, cpfVars,
                   photoVars, typeVars, runVars, faceVars, cleanVars, embedVars, lateVars>>

NextName == AddNameLine \/ AddNamePair \/ ProcessTextract

SpecName == InitName /\ [][NextName]_vars

\* the whitespace-separated tokens of a name
NumTokens(nome) ==
    Cardinality({ i \in 1..Len(nome) :
                    nome[i] \notin WS /\ (i = 1 \/ nome[i - 1] \in WS) })

\* a name the spec accepts: longer than 5 characters, two tokens or more
AcceptableName(nome) == Len(nome) > 5 /\ NumTokens(nome) >= 2

\* C17: a captured name is accepted only if, without its non-letters, it is
\* longer than 5 characters and has at least two whitespace-separated
\* tokens; a single word is rejected and the name stays empty unless a later
\* pattern gives an acceptable name
C17_NameNeedsTwoTokens ==
    processor = "textract" =>
        /\ info_text.nome # <<>> => AcceptableName(info_text.nome)
        /\ info_forms.nome # <<>> => AcceptableName(info_forms.nome)
        /\ result.nome # <<>> => AcceptableName(result.nome)

\* the length test is made
X_C17_LongerThanFive ==
    processor = "textract" =>
        /\ info_text.nome # <<>> => Len(info_text.nome) > 5
        /\ info_forms.nome # <<>> => Len(info_forms.nome) > 5

\* the text 'Nome: FERNANDO' gave the name 'Fernando'
X_C17_SingleWordFromText ==
    /\ processor = "textract"
    /\ ocr_text = <<"N", "o", "m", "e", ":", " ", "F", "E", "R", "N", "A", "N", "D", "O">>
    /\ info_text.nome = <<"F", "e", "r", "n", "a", "n", "d", "o">>

\* the pair nome = 'FERNANDO' gave the name 'Fernando'
X_C17_SingleWordFromForms ==
    /\ processor = "textract"
    /\ form_pairs = << << <<"n", "o", "m", "e">>, <<"F", "E", "R", "N", "A", "N", "D", "O">> >> >>
    /\ info_forms.nome = <<"F", "e", "r", "n", "a", "n", "d", "o">>

\* a capture of three letters is rejected and the name stays empty
X_C17_ShortCaptureRejected ==
    /\ processor = "textract"
    /\ ocr_text = <<"N", "o", "m", "e", ":", " ", "A", "n", "a">>
    /\ info_text.nome = <<>>

----------------------------------------------------------------------------
(* clean_cpf on its own (SpecClean): bkp/document_processor.py and          *)
(* document_processor_textract.py                                           *)

\* bkp/document_processor.py: CPFValidator.clean_cpf
bkp_clean_cpf(cpf) ==
    LET cleaned == SelectSeq(cpf, LAMBDA c : c \in Digits)
    IN  IF Len(cleaned) > 11
        THEN (IF Len(cleaned) = 14 THEN Slice(cleaned, 3, 14) ELSE Slice(cleaned, 0, 11))
        ELSE cleaned

\* how many digits a string handed to clean_cpf holds at most
MaxCleanDigits == 16

\* the digits the inputs are cut from
CleanBases ==
    { <<"2", "0", "0", "2", "6", "2", "1", "0", "6", "8", "9", "8", "7", "6", "5", "4", "3">>,
      <<"1", "1", "1", "4", "4", "4", "7", "7", "7", "3", "5", "5", "2", "9", "9", "8", "2">> }

\* the strings handed to clean_cpf: the leading digits of a base, written in
\* every way, and the string of test_cpf_cleaning
CleanInputs ==
    { Render(Slice(b, 0, k), r) : b \in CleanBases, k \in 0..MaxCleanDigits,
                                  r \in Renderings }
        \cup { <<"2", "0", "0", "~", "2", "6", "2", "1", "0", "6", "8", "9", "8", "/", "7", "6">> }

InitClean ==
    /\ cpf_in \in CleanInputs
    /\ cpf_out = "unset"
    /\ cpf_prev = <<>>
    /\ prev_out = "unset"
    /\ InitDocIdle /\ InitPhotoIdle /\ InitTypeIdle /\ InitRunIdle /\ InitFaceIdle
    /\ InitCleanIdle /\ InitEmbedIdle /\ InitLateIdle

\* CPFValidator.clean_cpf(cpf_in) of document_processor_textract.py
CleanTextract ==
    /\ clean_out = NotCleaned
    /\ clean_out' = [state |-> "returned", by |-> "textract", digits |-> clean_cpf(cpf_in)]
    /\ UNCHANGED <<cpfVars, docVars, photoVars, typeVars, runVars, faceVars, embedVars, lateVars>>

\* CPFValidator.clean_cpf(cpf_in) of bkp/document_processor.py
CleanBkp ==
    /\ clean_out = NotCleaned
    /\ clean_out' = [state |-> "returned", by |-> "bkp", digits |-> bkp_clean_cpf(cpf_in)]
    /\ UNCHANGED <<cpfVars, docVars, photoVars, typeVars, runVars, faceVars, embedVars, lateVars>>

NextClean == CleanTextract \/ CleanBkp

SpecClean == InitClean /\ [][NextClean]_vars

\* the digits of cpf_in, in their order
DigitsOfInput == SelectSeq(cpf_in, LAMBDA c : c \in Digits)

\* what the rule of the spec gives for cpf_in
RuleOfClean ==
    /\ Len(DigitsOfInput) <= 11 => clean_out.digits = DigitsOfInput
    /\ Len(DigitsOfInput) = 14 =>
           clean_out.digits = SubSeq(DigitsOfInput, 4, 14)
    /\ (Len(DigitsOfInput) > 11 /\ Len(DigitsOfInput) # 14) =>
           clean_out.digits = SubSeq(DigitsOfInput, 1, 11)
    /\ Len(clean_out.digits) <= 11

\* C18: clean_cpf(s) removes every character of s that is not a digit; of
\* more than 11 digits it returns the last 11 when there are exactly 14 and
\* the first 11 otherwise; 11 digits or fewer come back unchanged; the
\* result never has more than 11 digits
C18_CleanKeepsElevenDigits == clean_out # NotCleaned => RuleOfClean

\* clean_cpf of bkp/document_processor.py follows the rule
X_C18_BkpFollowsRule == (clean_out # NotCleaned /\ clean_out.by = "bkp") => RuleOfClean

\* the string of test_cpf_cleaning gave its last eleven digits
X_C18_BkpLastEleven ==
    /\ clean_out # NotCleaned /\ clean_out.by = "bkp"
    /\ cpf_in = <<"2", "0", "0", "~", "2", "6", "2", "1", "0", "6", "8", "9", "8", "/", "7", "6">>
    /\ clean_out.digits = <<"2", "6", "2", "1", "0", "6", "8", "9", "8", "7", "6">>

\* twelve digits gave the first eleven
X_C18_BkpFirstEleven ==
    /\ clean_out # NotCleaned /\ clean_out.by = "bkp"
    /\ Len(DigitsOfInput) = 12
    /\ clean_out.digits = SubSeq(DigitsOfInput, 1, 11)

\* clean_cpf of document_processor_textract.py returned all fourteen digits
X_C18_TextractKeepsFourteen ==
    /\ clean_out # NotCleaned /\ clean_out.by = "textract"
    /\ cpf_in = <<"2", "0", "0", "~", "2", "6", "2", "1", "0", "6", "8", "9", "8", "/", "7", "6">>
    /\ clean_out.digits = <<"2", "0", "0", "2", "6", "2", "1", "0", "6", "8", "9", "8", "7", "6">>

\* up to eleven digits both agree with the rule
X_C18_TextractUpToEleven ==
    (clean_out # NotCleaned /\ Len(DigitsOfInput) <= 11) => RuleOfClean

----------------------------------------------------------------------------
(* extract_images_from_pdf (SpecEmbed): bkp/document_processor_advanced_    *)
(* complete.py and bkp/document_processor_optimized.py, which agree line    *)
(* by line.  An embedded image of the PDF is [w, h, gray_or_rgb, decodes,   *)
(* raises]: its pixmap's width and height, pix.n - pix.alpha < 4, whether   *)
(* cv2.imdecode returns an image, whether loading it raises.                *)

\* pix.width * pix.height > 4000000
ImagePixelCap == 4000000

\* len(images) >= 10
ImageCountCap == 10

\* range(min(len(doc), 5))
MaxImagePages == 5

\* self.max_image_size
max_image_size == 2048

\* cv_img.shape[0] > 50 and cv_img.shape[1] > 50
MinSide == 50

\* the image handed on as it was loaded
resize_image_never(image) == image

\* resize_image_if_needed: int(width * scale), int(height * scale) with
\* scale = max_image_size / max_dimension; for the sizes of RawChoices the
\* float product and the integer quotient agree
resize_image_if_needed(image) ==
    LET max_dimension == Max2(image.h, image.w)
    IN  IF max_dimension > max_image_size
        THEN [image EXCEPT !.w = (image.w * max_image_size) \div max_dimension,
                           !.h = (image.h * max_image_size) \div max_dimension]
        ELSE image

\* the loop over image_list of page p, from image i on; acc is [images,
\* loaded]: the list built so far and the images fitz.Pixmap was called for
RECURSIVE images_of_page(_, _, _, _)
images_of_page(page, p, i, acc) ==
    IF i > Len(page) THEN acc
    ELSE LET raw == page[i]
             seen == [acc EXCEPT !.loaded = Append(@, <<p, i>>)]
             kept == IF raw.gray_or_rgb /\ raw.decodes /\ raw.h > MinSide /\ raw.w > MinSide
                     THEN [seen EXCEPT !.images =
                              Append(@, resize_image_if_needed(
                                            [of |-> <<p, i>>, w |-> raw.w, h |-> raw.h]))]
                     ELSE seen
         IN  IF raw.raises THEN images_of_page(page, p, i + 1, seen)
             ELSE IF raw.w * raw.h > ImagePixelCap THEN images_of_page(page, p, i + 1, seen)
             ELSE IF Len(kept.images) >= ImageCountCap THEN kept
             ELSE images_of_page(page, p, i + 1, kept)

\* the loop over the pages
RECURSIVE images_from_pages(_, _, _)
images_from_pages(pages, p, acc) ==
    IF p > Min2(Len(pages), MaxImagePages) THEN acc
    ELSE LET after == images_of_page(pages[p], p, 1, acc)
         IN  IF Len(after.images) >= ImageCountCap THEN after
             ELSE images_from_pages(pages, p + 1, after)

\* DocumentProcessor.extract_images_from_pdf
extract_images_from_pdf(pages) ==
    images_from_pages(pages, 1, [images |-> <<>>, loaded |-> <<>>])

\* how many pages a document holds at most
MaxDocPages == 3

Raw(w, h, gray_or_rgb, decodes, raises) ==
    [w |-> w, h |-> h, gray_or_rgb |-> gray_or_rgb, decodes |-> decodes,
     raises |-> raises]

Plain == Raw(100, 100, TRUE, TRUE, FALSE)

LongSide == Raw(3000, 1000, TRUE, TRUE, FALSE)

Oversized == Raw(2500, 2000, TRUE, TRUE, FALSE)

\* the embedded images a page may hold
RawChoices ==
    { <<>>,
      <<Plain>>,
      <<LongSide>>,
      <<Oversized>>,
      <<Raw(2000, 2000, TRUE, TRUE, FALSE)>>,
      <<Raw(40, 100, TRUE, TRUE, FALSE)>>,
      <<Raw(100, 100, FALSE, TRUE, FALSE)>>,
      <<Raw(100, 100, TRUE, FALSE, FALSE)>>,
      <<Raw(100, 100, TRUE, TRUE, TRUE)>>,
      <<Plain, Plain, Plain, Plain, Plain, Plain>>,
      <<Plain, LongSide, Oversized, Plain, Plain, Raw(100, 100, TRUE, TRUE, TRUE),
        Plain, Plain>> }

InitEmbed ==
    /\ InitCPFIdle /\ InitDocIdle /\ InitPhotoIdle /\ InitTypeIdle /\ InitRunIdle
    /\ InitFaceIdle /\ InitCleanIdle /\ InitEmbedIdle /\ InitLateIdle

\* the PDF has one more page
AddEmbeddedPage ==
    /\ extracted = NotExtracted
    /\ Len(doc_embedded) < MaxDocPages
    /\ \E page \in RawChoices : doc_embedded' = Append(doc_embedded, page)
    /\ UNCHANGED <<extracted, cpfVars, docVars, photoVars, typeVars, runVars, faceVars,
                   cleanVars, lateVars>>

\* DocumentProcessor.extract_images_from_pdf(pdf_path)
ExtractImages ==
    /\ extracted = NotExtracted
    /\ LET got == extract_images_from_pdf(doc_embedded)
       IN  extracted' = [state |-> "returned", images |-> got.images,
                         loaded |-> got.loaded]
    /\ UNCHANGED <<doc_embedded, cpfVars, docVars, photoVars, typeVars, runVars,
                   faceVars, cleanVars, lateVars>>

NextEmbed == AddEmbeddedPage \/ ExtractImages

SpecEmbed == InitEmbed /\ [][NextEmbed]_vars

\* the embedded image an image handed on was loaded from
SourceOf(image) == doc_embedded[image.of[1]][image.of[2]]

\* pix.width * pix.height
Pixels(raw) == raw.w * raw.h

\* every embedded image of the document, by page and place
EmbeddedPlaces ==
    UNION { { <<p, i>> : i \in 1..Len(doc_embedded[p]) } : p \in 1..Len(doc_embedded) }

\* the images fitz.Pixmap was called for
LoadedPlaces == { extracted.loaded[k] : k \in 1..Len(extracted.loaded) }

\* no image above the per-image cap is handed on
WithinPixelCap ==
    \A k \in 1..Len(extracted.images) :
        Pixels(SourceOf(extracted.images[k])) <= ImagePixelCap

\* no more images than the per-document cap, and nothing is loaded after
\* the image that filled it
WithinCountCap ==
    /\ Len(extracted.images) <= ImageCountCap
    /\ Len(extracted.images) = ImageCountCap =>
           extracted.loaded[Len(extracted.loaded)] = extracted.images[ImageCountCap].of

\* an image is handed on with the size it was loaded with
Unresized(image) == image.w = SourceOf(image).w /\ image.h = SourceOf(image).h

\* C19 as stated: extract_images_from_pdf never hands on an embedded image
\* above the per-image cap of 4,000,000 pixels (it is skipped), no embedded
\* image is resized, never more than 10 images are returned, and once the
\* cap of 10 is reached no further embedded image is loaded
C19_OversizedSkippedNoneResized ==
    extracted # NotExtracted =>
        /\ WithinPixelCap
        /\ \A k \in 1..Len(extracted.images) : Unresized(extracted.images[k])
        /\ WithinCountCap

\* C19 amended: an embedded image above the per-image cap is skipped and
\* not resized; an image within the cap is handed on with its own size
\* unless its longer side exceeds max_image_size (2048), and then it is
\* handed on made smaller, with no side above 2048; never more than 10
\* images are returned and once 10 are reached no further image is loaded
C19_OversizedSkippedLongSideResized ==
    extracted # NotExtracted =>
        /\ WithinPixelCap
        /\ \A k \in 1..Len(extracted.images) :
               LET image == extracted.images[k]
               IN  IF Max2(SourceOf(image).w, SourceOf(image).h) > max_image_size
                   THEN /\ Max2(image.w, image.h) <= max_image_size
                        /\ image.w < SourceOf(image).w /\ image.h < SourceOf(image).h
                   ELSE Unresized(image)
        /\ WithinCountCap

\* a document of which an oversized image was skipped, an image with a long
\* side was handed on smaller, ten images were returned and the images
\* after the tenth were never loaded
C19_Witness ==
    /\ extracted # NotExtracted
    /\ Len(extracted.images) = ImageCountCap
    /\ \E place \in LoadedPlaces :
           /\ Pixels(doc_embedded[place[1]][place[2]]) > ImagePixelCap
           /\ \A k \in 1..Len(extracted.images) : extracted.images[k].of # place
    /\ \E k \in 1..Len(extracted.images) : ~Unresized(extracted.images[k])
    /\ EmbeddedPlaces \ LoadedPlaces # {}

\* an image of exactly 4,000,000 pixels is handed on as it is
X_C19_ImageAtTheCapKept ==
    /\ extracted # NotExtracted
    /\ \E k \in 1..Len(extracted.images) :
           /\ Pixels(SourceOf(extracted.images[k])) = ImagePixelCap
           /\ Unresized(extracted.images[k])

----------------------------------------------------------------------------
(* Claims about the renders above a cap (SpecPhoto)                         *)

CallsMade == { photo_calls[k] : k \in 1..Len(photo_calls) }

\* the pages a tier asks the renderer for and gets a render of: the first
\* three, up to the first whose render raises in that tier
PagesRequested(tier) ==
    { n \in 1..PagesLooked(pdf_pages) : \A m \in 1..n : pdf_pages[m].raises # tier }

\* the pages the rendered-face tier has an image of
PagesOfRenderedTier ==
    LET rendered_images == extract_faces_from_rendered_pages(pdf_pages)
    IN  { rendered_images[k].id[2] : k \in 1..Len(rendered_images) }

\* the render of page n at the scale a tier starts with is above its cap
AboveRenderedCap(n) == render_pixels(pdf_pages[n], Scale15) > RenderedPixelCap

AboveFullPageCap(n) == render_pixels(pdf_pages[n], Scale12) > FullPagePixelCap

\* the full-page tier has an image of page n rendered at the lower scale
FullPageRenderedLower(n) ==
    LET page_images == extract_full_page_images(pdf_pages)
    IN  \E k \in 1..Len(page_images) :
            page_images[k].id = n /\ page_images[k].scale = Scale08

\* C20: a rendered page above the render cap is never skipped: it is
\* rendered again at a lower scale and that render is the one processed, in
\* the rendered-face tier and in the full-page tier, so every one of the
\* first pages requested gives its tier an image
C20_OversizedRenderNeverSkipped ==
    photo_pc = "done" =>
        /\ "extract_faces_from_rendered_pages(pdf_path)" \in CallsMade =>
               /\ \A n \in PagesRequested("rendered") : n \in PagesOfRenderedTier
               /\ \A n \in PagesRequested("rendered") :
                      AboveRenderedCap(n) =>
                          \E k \in 1..Len(extract_faces_from_rendered_pages(pdf_pages)) :
                              LET image == extract_faces_from_rendered_pages(pdf_pages)[k]
                              IN  image.id[2] = n /\ image.area <= RenderedPixelCap
        /\ "extract_full_page_images(pdf_path)" \in CallsMade =>
               \A n \in PagesRequested("full") :
                   /\ \E k \in 1..Len(extract_full_page_images(pdf_pages)) :
                          extract_full_page_images(pdf_pages)[k].id = n
                   /\ AboveFullPageCap(n) => FullPageRenderedLower(n)

\* the full-page tier does what C20 says
X_C20_FullPageTierRendersLower ==
    (photo_pc = "done" /\ "extract_full_page_images(pdf_path)" \in CallsMade) =>
        \A n \in PagesRequested("full") :
            /\ \E k \in 1..Len(extract_full_page_images(pdf_pages)) :
                   extract_full_page_images(pdf_pages)[k].id = n
            /\ AboveFullPageCap(n) => FullPageRenderedLower(n)

\* a search whose full-page tier rendered a page again at the lower scale
X_C20_FullPageLowerReached ==
    /\ photo_pc = "done" /\ "extract_full_page_images(pdf_path)" \in CallsMade
    /\ \E n \in PagesRequested("full") : AboveFullPageCap(n) /\ FullPageRenderedLower(n)

\* a search whose rendered-face tier passed over a page above its cap
X_C20_RenderedTierSkips ==
    /\ photo_pc = "done"
    /\ "extract_faces_from_rendered_pages(pdf_path)" \in CallsMade
    /\ \E n \in PagesRequested("rendered") :
           AboveRenderedCap(n) /\ n \notin PagesOfRenderedTier

----------------------------------------------------------------------------
(* detect_best_photo of bkp/document_processor_optimized.py                *)

\* max(faces, key=lambda face: face[2] * face[3]): the first of the largest
largest_face(faces) ==
    CHOOSE k \in 1..Len(faces) :
        /\ \A j \in 1..Len(faces) : faces[j].area <= faces[k].area
        /\ \A j \in 1..(k - 1) : faces[j].area < faces[k].area

\* the body of "for img in images": an image the cascade cannot read is passed
\* over (except ... continue); best_score is moved before the crop, the photo
\* only when the crop gave one
loop_body(img, best_photo, best_score) ==
    IF img.detect_raises \/ img.faces = <<>>
    THEN [photo |-> best_photo, score |-> best_score]
    ELSE LET k == largest_face(img.faces)
             score == img.faces[k].area
         IN  IF score > best_score
             THEN [photo |-> IF img.faces[k].crops
                             THEN [src |-> "face", of |-> img.id, region |-> k]
                             ELSE best_photo,
                   score |-> score]
             ELSE [photo |-> best_photo, score |-> best_score]

\* "for img in images" from image i on
RECURSIVE best_photo_from(_, _, _, _)
best_photo_from(images, i, best_photo, best_score) ==
    IF i > Len(images) THEN best_photo
    ELSE LET after == loop_body(images[i], best_photo, best_score)
         IN  best_photo_from(images, i + 1, after.photo, after.score)

\* DocumentProcessor.detect_best_photo(images)
detect_best_photo(images) == best_photo_from(images, 1, NoImage, 0)

----------------------------------------------------------------------------
(* The raster buffers the photo block of process_document holds (SpecMem)   *)

\* len(faces) at which the loop over the rendered pages breaks
OptFaceLimit == 5

AdvFaceLimit == 3

\* faces one call of detect_faces_in_image keeps at most
FacesPerImage == 3

\* the pages the PDF may hold
MemPageLists ==
    { <<>>,
      <<Page(501, "never", <<>>, FALSE, TRUE)>>,
      <<Page(501, "never", <<>>, FALSE, TRUE),
        Page(501, "never", <<Face(40, "frontal_default", 0, TRUE)>>, FALSE, TRUE)>>,
      <<Page(3000, "never", <<>>, FALSE, TRUE), Page(501, "never", <<>>, FALSE, TRUE)>>,
      <<Page(501, "never", <<>>, FALSE, TRUE), Page(501, "rendered", <<>>, FALSE, TRUE)>>,
      <<Page(501, "never", <<>>, FALSE, TRUE), Page(501, "never", <<>>, FALSE, TRUE),
        Page(501, "never", <<>>, TRUE, TRUE)>> }

\* process_document has reached "Extrai fotos"
InitMem ==
    /\ InitCPFIdle /\ InitDocIdle /\ InitTypeIdle /\ InitRunIdle /\ InitFaceIdle
    /\ InitCleanIdle /\ InitEmbedIdle /\ IdleButMem
    /\ embedded_images \in RunImageLists
    /\ pdf_pages \in MemPageLists
    /\ pdf_pages = <<>> => embedded_images = <<>>
    /\ photo_pc = "idle"
    /\ photo_calls = <<>>
    /\ best_image = NoImage
    /\ extraction_method = "none"
    /\ photo_path = NoImage
    /\ photo_error = FALSE
    /\ mem_proc \in {"optimized", "advanced"}
    /\ mem_pc = "start"
    /\ held_embedded = 0
    /\ held_rendered = 0
    /\ mem_page = 0
    /\ mem_faces = 0
    /\ mem_found = FALSE

MemFrame == UNCHANGED <<mem_proc, earlyVars, lateButMem>>

\* embedded_images = self.extract_images_from_pdf(pdf_path)
MemExtractEmbedded ==
    /\ mem_pc = "start"
    /\ mem_pc' = "embedded"
    /\ held_embedded' = Len(embedded_images)
    /\ UNCHANGED <<held_rendered, mem_page, mem_faces, mem_found>>
    /\ MemFrame

\* optimized: best_photo = self.detect_best_photo(embedded_images)
OptDetectEmbedded ==
    /\ mem_proc = "optimized"
    /\ mem_pc = "embedded"
    /\ mem_pc' = "tier1"
    /\ mem_found' = (detect_best_photo(embedded_images) # NoImage)
    /\ UNCHANGED <<held_embedded, held_rendered, mem_page, mem_faces>>
    /\ MemFrame

\* optimized: embedded_images = None; gc.collect()
OptReleaseEmbedded ==
    /\ mem_proc = "optimized"
    /\ mem_pc = "tier1"
    /\ mem_pc' = (IF mem_found THEN "ended" ELSE "rendering")
    /\ held_embedded' = 0
    /\ UNCHANGED <<held_rendered, mem_page, mem_faces, mem_found>>
    /\ MemFrame

\* advanced: faces_detected = self.detect_faces_advanced(images), the first
\* tier of detect_best_photo_or_fallback; what it raises is caught by
\* process_document, past the line that releases embedded_images
AdvDetectEmbedded ==
    /\ mem_proc = "advanced"
    /\ mem_pc = "embedded"
    /\ LET faces_detected == detect_faces_advanced(embedded_images)
       IN  /\ mem_found' = (~faces_detected.raised /\ faces_detected.faces # <<>>)
           /\ mem_pc' = (IF faces_detected.raised THEN "ended"
                         ELSE IF faces_detected.faces # <<>> THEN "back"
                         ELSE "rendering")
    /\ UNCHANGED <<held_embedded, held_rendered, mem_page, mem_faces>>
    /\ MemFrame

\* the loop of a tier goes on: no break yet and a page is left
LoopGoesOn ==
    /\ mem_page < PagesLooked(pdf_pages)
    /\ mem_pc = "rendering" =>
           mem_faces < (IF mem_proc = "optimized" THEN OptFaceLimit ELSE AdvFaceLimit)

\* pix = page.get_pixmap(matrix=mat) in extract_faces_from_rendered_pages
\* and in extract_full_page_images; an exception ends the loop
RenderPage ==
    /\ mem_pc \in {"rendering", "full"}
    /\ LoopGoesOn
    /\ mem_page' = mem_page + 1
    /\ IF pdf_pages[mem_page + 1].raises = (IF mem_pc = "rendering" THEN "rendered" ELSE "full")
       THEN /\ mem_pc' = (IF mem_pc = "rendering" THEN "rendered" ELSE "paged")
            /\ UNCHANGED held_rendered
       ELSE /\ mem_pc' = (IF mem_pc = "rendering" THEN "page_rendered" ELSE "page_full")
            /\ held_rendered' = held_rendered + 1
    /\ UNCHANGED <<held_embedded, mem_faces, mem_found>>
    /\ MemFrame

\* optimized extract_faces_from_rendered_pages, the rest of the loop body:
\* a page above the cap is dropped; the faces of the others are cut out,
\* then pix = None, cv_img = None, gc.collect()
OptConsumePage ==
    /\ mem_proc = "optimized"
    /\ mem_pc = "page_rendered"
    /\ mem_pc' = "rendering"
    /\ held_rendered' = held_rendered - 1
    /\ LET page == pdf_pages[mem_page]
           cut == Cardinality({ k \in 1..Len(page.faces) : page.faces[k].crops })
       IN  mem_faces' =
               IF render_pixels(page, Scale15) > RenderedPixelCap \/ page.detect_raises
               THEN mem_faces
               ELSE mem_faces + (IF cut > FacesPerImage THEN FacesPerImage ELSE cut)
    /\ UNCHANGED <<held_embedded, mem_page, mem_found>>
    /\ MemFrame

\* advanced extract_faces_from_rendered_pages, the rest of the loop body: a
\* page above the cap is dropped; the others stay in the list faces
AdvConsumePage ==
    /\ mem_proc = "advanced"
    /\ mem_pc = "page_rendered"
    /\ mem_pc' = "rendering"
    /\ IF render_pixels(pdf_pages[mem_page], Scale15) > RenderedPixelCap
       THEN /\ held_rendered' = held_rendered - 1
            /\ UNCHANGED mem_faces
       ELSE /\ mem_faces' = mem_faces + 1
            /\ UNCHANGED held_rendered
    /\ UNCHANGED <<held_embedded, mem_page, mem_found>>
    /\ MemFrame

\* the loop over the rendered pages has ended
LoopEnded == mem_pc = "rendered" \/ (mem_pc = "rendering" /\ ~LoopGoesOn)

\* optimized: best_photo = self.detect_best_photo(rendered_faces);
\* rendered_faces = None; found is what the cascade makes of the cut faces
OptDetectRendered ==
    /\ mem_proc = "optimized"
    /\ LoopEnded
    /\ mem_pc' = "ended"
    /\ \E found \in BOOLEAN :
           /\ found => mem_faces > 0
           /\ mem_found' = found
    /\ UNCHANGED <<held_embedded, held_rendered, mem_page, mem_faces>>
    /\ MemFrame

\* advanced: rendered_faces = self.detect_faces_advanced(rendered_images).
\* With a face the function returns; without one rendered_images = None;
\* an exception is caught with rendered_images still bound
AdvDetectRendered ==
    /\ mem_proc = "advanced"
    /\ LoopEnded
    /\ LET rendered_images == extract_faces_from_rendered_pages(pdf_pages)
           rendered_faces == detect_faces_advanced(rendered_images)
       IN  IF rendered_images # <<>> /\ rendered_faces.raised
           THEN /\ mem_pc' = "full"
                /\ UNCHANGED <<held_rendered, mem_found>>
           ELSE /\ held_rendered' = 0
                /\ mem_found' = (rendered_images # <<>> /\ rendered_faces.faces # <<>>)
                /\ mem_pc' = (IF mem_found' THEN "back" ELSE "full")
    /\ mem_page' = 0
    /\ mem_faces' = 0
    /\ UNCHANGED held_embedded
    /\ MemFrame

\* advanced extract_full_page_images, the rest of the loop body: the page,
\* cropped or whole, stays in the list page_images
AdvKeepFullPage ==
    /\ mem_proc = "advanced"
    /\ mem_pc = "page_full"
    /\ mem_pc' = "full"
    /\ UNCHANGED <<held_embedded, held_rendered, mem_page, mem_faces, mem_found>>
    /\ MemFrame

\* advanced: best_page = page_images[0], and the function returns
AdvFallback ==
    /\ mem_proc = "advanced"
    /\ mem_pc = "paged" \/ (mem_pc = "full" /\ ~LoopGoesOn)
    /\ mem_pc' = "back"
    /\ mem_found' = (extract_full_page_images(pdf_pages) # <<>>)
    /\ held_rendered' = 0
    /\ UNCHANGED <<held_embedded, mem_page, mem_faces>>
    /\ MemFrame

\* advanced: back in process_document, embedded_images = None; gc.collect()
AdvReleaseEmbedded ==
    /\ mem_proc = "advanced"
    /\ mem_pc = "back"
    /\ mem_pc' = "ended"
    /\ held_embedded' = 0
    /\ UNCHANGED <<held_rendered, mem_page, mem_faces, mem_found>>
    /\ MemFrame

NextMem ==
    \/ MemExtractEmbedded
    \/ OptDetectEmbedded
    \/ OptReleaseEmbedded
    \/ AdvDetectEmbedded
    \/ RenderPage
    \/ OptConsumePage
    \/ AdvConsumePage
    \/ OptDetectRendered
    \/ AdvDetectRendered
    \/ AdvKeepFullPage
    \/ AdvFallback
    \/ AdvReleaseEmbedded

SpecMem == InitMem /\ [][NextMem]_vars

\* the rendered-face tier or the full-page tier is rendering or holds a page
RenderingTier == mem_pc \in {"rendering", "page_rendered", "rendered", "full", "page_full", "paged"}

\* C21: each raster buffer is released as soon as the stage that consumed it
\* ends: while a tier renders, or holds a rendered page, no embedded image is
\* held, and never more than one rendered page is held at a time.
C21_BuffersReleasedAfterEachStage ==
    /\ (RenderingTier \/ held_rendered > 0) => held_embedded = 0
    /\ held_rendered <= 1

\* the optimized processor does release each buffer at once
X_C21_OptimizedReleases ==
    mem_proc = "optimized" =>
        /\ (RenderingTier \/ held_rendered > 0) => held_embedded = 0
        /\ held_rendered <= 1

\* the optimized processor held a rendered page, with no embedded image held
\* although the document has some
X_C21_OptimizedHeldAPage ==
    /\ mem_proc = "optimized"
    /\ held_rendered = 1
    /\ embedded_images # <<>>

\* the advanced processor holds embedded images and a rendered page
X_C21_EmbeddedHeldWhileRendering ==
    /\ mem_proc = "advanced"
    /\ held_embedded > 0
    /\ held_rendered > 0

\* the advanced processor holds two rendered pages
X_C21_TwoPagesHeld ==
    /\ mem_proc = "advanced"
    /\ mem_pc = "page_rendered"
    /\ held_rendered = 2

----------------------------------------------------------------------------
(* Classification and extraction called in any order (SpecPure)             *)

\* calls of each function a run makes at most
MaxCalls == 2

\* self.document_patterns and self.info_patterns as __init__ builds them
TextractTables ==
    [state |-> "built",
     document_patterns |-> document_patterns,
     info_patterns |-> [nome |-> nome_patterns, cpf |-> cpf_patterns,
                        rg |-> rg_patterns, nis_pis_pasep |-> nis_patterns]]

\* a callee that lower-cases the caller's text
caller_text_lowered(text) == Lower(text)

\* the caller's text after identify_document_type(text): text = text.lower()
\* binds the callee's own name to a new str
caller_text_after_identify(text) == text

\* DocumentProcessorTextract() built, the OCR has given text and pairs
InitPure ==
    /\ InitCPFIdle /\ InitPhotoIdle /\ InitTypeIdle /\ InitRunIdle /\ InitFaceIdle
    /\ InitCleanIdle /\ InitEmbedIdle /\ IdleButPure
    /\ ocr_text \in RunTexts
    /\ form_pairs \in RunPairLists
    /\ processor = "none"
    /\ info_text = EmptyInfo
    /\ info_forms = EmptyInfo
    /\ result = Failure
    /\ tables = TextractTables
    /\ pure_calls = [f \in {"classify", "text", "forms"} |-> 0]
    /\ first_results = [f \in {"classify", "text", "forms"} |-> NotCalled]

\* the call counted, and its value kept when it is the first
Called(f, value) ==
    /\ pure_calls[f] < MaxCalls
    /\ pure_calls' = [pure_calls EXCEPT ![f] = @ + 1]
    /\ first_results' =
           IF pure_calls[f] = 0
           THEN [first_results EXCEPT ![f] = [state |-> "returned", value |-> value]]
           ELSE first_results

\* DocumentProcessorTextract.identify_document_type(ocr_text)
PureClassify ==
    /\ doc_type' = type_of_scores(scores_of(ocr_text, tables.document_patterns))
    /\ Called("classify", doc_type')
    /\ ocr_text' = caller_text_after_identify(ocr_text)
    /\ UNCHANGED <<form_pairs, processor, info_text, info_forms, result, classifier,
                   tables, cpfVars, photoVars, runVars, faceVars, cleanVars, embedVars,
                   lateButPure>>

\* DocumentProcessorTextract.extract_information_from_text(ocr_text)
PureExtractText ==
    /\ info_text' = extract_information_from_text(ocr_text)
    /\ Called("text", info_text')
    /\ UNCHANGED <<ocr_text, form_pairs, processor, info_forms, result, typeVars,
                   tables, cpfVars, photoVars, runVars, faceVars, cleanVars, embedVars,
                   lateButPure>>

\* DocumentProcessorTextract.extract_information_from_forms(form_pairs)
PureExtractForms ==
    /\ info_forms' = extract_information_from_forms(form_pairs)
    /\ Called("forms", info_forms')
    /\ UNCHANGED <<ocr_text, form_pairs, processor, info_text, result, typeVars,
                   tables, cpfVars, photoVars, runVars, faceVars, cleanVars, embedVars,
                   lateButPure>>

NextPure == PureClassify \/ PureExtractText \/ PureExtractForms

SpecPure == InitPure /\ [][NextPure]_vars

\* the last value of f is the one its first call returned
SameAsFirst(f, last) ==
    first_results[f] # NotCalled => last = first_results[f].value

----------------------------------------------------------------------------
(* Texts long enough for the context window to leave out a part (SpecScan)  *)

\* how many lines such a text holds at most
MaxScanLines == 3

\* the lines such a text is made of
ScanLines ==
    { <<"C", "P", "F", ":", " ", "1", "1", "1", ".", "4", "4", "4", ".", "7", "7", "7",
        "-", "3", "5">>,
      <<"5", "2", "9", ".", "9", "8", "2", ".", "2", "4", "7", "-", "2", "5">>,
      <<"D", "O", "C", "U", "M", "E", "N", "T", "O", " ", "V", "A", "L", "I", "D", "O",
        " ", "E", "M", " ", "T", "O", "D", "O", " ", "O", " ", "T", "E", "R", "R", "I",
        "T", "O", "R", "I", "O", " ", "D", "A", " ", "R", "E", "P", "U", "B", "L", "I",
        "C", "A">>,
      <<"P", "A", "S", "E", "P", " ", "d", "o", " ", "t", "i", "t", "u", "l", "a", "r",
        " ", "5", "2", "9", "9", "8", "2", "2", "4", "7", "2", "5">>,
      <<"0", "0", "5", "2", "9", "9", "8", "2", "2", "4", "7", "2", "5">>,
      <<"C", "a", "d", "a", "s", "t", "r", "o", " ", "1", "1", "1", "4", "4", "4", "7",
        "7", "7", "3", "5">>,
      <<"N", "I", "S", ":", " ", "1", "1", "1", "4", "4", "4", "7", "7", "7", "3", "5">> }

InitScan ==
    /\ InitCPFIdle /\ InitDocIdle /\ InitPhotoIdle /\ InitTypeIdle /\ InitRunIdle
    /\ InitFaceIdle /\ InitCleanIdle /\ InitEmbedIdle /\ InitLateIdle

\* the OCR reads one more line of the document
AddScanLine ==
    /\ processor = "none"
    /\ NumLines(ocr_text) < MaxScanLines
    /\ \E l \in ScanLines :
           ocr_text' = (IF ocr_text = <<>> THEN l ELSE ocr_text \o <<"\n">> \o l)
    /\ UNCHANGED <<form_pairs, processor, info_text, info_forms, result, cpfVars,
                   photoVars, typeVars, runVars, faceVars, cleanVars, embedVars, lateVars>>

NextScan == AddScanLine \/ ProcessTextract

SpecScan == InitScan /\ [][NextScan]_vars

\* where the number d stands in t as an 11-digit number of its own, with
\* the length it is written in
Occurrences(t, d) ==
    { <<j, 11>> : j \in { i \in 1..Len(t) : BareAt(t, i) /\ SubSeq(t, i, i + 10) = d } }
        \cup { <<j, 14>> : j \in { i \in 1..Len(t) : FormattedAt(t, i)
                                       /\ DigitsLeft(SubSeq(t, i, i + 13)) = d } }

\* the text from 50 characters before what stands at o to 50 characters
\* after it, in lower case
WindowAt(t, o) ==
    Lower(SubSeq(t, IF o[1] - context_window > 1 THEN o[1] - context_window ELSE 1,
                 o[1] - 1))
        \o Lower(SubSeq(t, o[1],
                        IF o[1] + o[2] + context_window - 1 < Len(t)
                        THEN o[1] + o[2] + context_window - 1 ELSE Len(t)))

HasToken(w, tokens) == \E k \in tokens : Contains(w, k)

\* the valid tax IDs under a CPF label that the text does not also label as
\* welfare numbers: what the label-anchored passes keep
LabelledCandidates(t) == CpfLabelledIDs(t) \ WelfareNumbers(t)

\* C23: when the label-anchored passes give a candidate the cpf returned is
\* one of theirs, whatever unlabelled number the text holds; otherwise a
\* cpf returned is no welfare number, passes validate_cpf, and stands
\* somewhere in the text with no welfare token in the 50 characters around
\* it.
C23_LabelledFirstThenWindowedScan ==
    (processor = "textract" /\ ocr_text # <<>>) =>
        LET c == DigitsLeft(info_text.cpf)
        IN  /\ LabelledCandidates(ocr_text) # {} => c \in LabelledCandidates(ocr_text)
            /\ (LabelledCandidates(ocr_text) = {} /\ c # <<>>) =>
                   /\ c \notin WelfareNumbers(ocr_text)
                   /\ Acceptable(c)
                   /\ \E o \in Occurrences(ocr_text, c) :
                          ~HasToken(WindowAt(ocr_text, o), nis_indicators)

\* the labelled candidate wins over every unlabelled number
X_C23_LabelledWins ==
    (processor = "textract" /\ LabelledCandidates(ocr_text) # {})
        => DigitsLeft(info_text.cpf) \in LabelledCandidates(ocr_text)

\* a labelled candidate was returned from a text whose first line is an
\* unlabelled valid number
X_C23_LabelledAfterUnlabelled ==
    /\ processor = "textract"
    /\ FormattedAt(ocr_text, 1)
    /\ LabelledCandidates(ocr_text) # {}
    /\ DigitsLeft(info_text.cpf) \in LabelledCandidates(ocr_text)
    /\ DigitsLeft(info_text.cpf) # DigitsLeft(SubSeq(ocr_text, 1, 14))

\* what the scan returns is a valid number that is no welfare number
X_C23_ScanValidNotWelfare ==
    (processor = "textract" /\ info_text.cpf # <<>>) =>
        /\ DigitsLeft(info_text.cpf) \notin WelfareNumbers(ocr_text)
        /\ Acceptable(DigitsLeft(info_text.cpf))

\* the scan returned a number with a tax-ID token and no welfare token
\* around it, from a text that holds a welfare token further away
X_C23_ScanWithTaxContext ==
    /\ processor = "textract"
    /\ LabelledCandidates(ocr_text) = {}
    /\ info_text.cpf # <<>>
    /\ HasToken(Lower(ocr_text), nis_indicators)
    /\ \E o \in Occurrences(ocr_text, DigitsLeft(info_text.cpf)) :
           /\ HasToken(WindowAt(ocr_text, o), cpf_indicators)
           /\ ~HasToken(WindowAt(ocr_text, o), nis_indicators)

\* the scan returned a number that stands in the text once, with a welfare
\* token in the 50 characters before it
X_C23_WelfareTokenAroundReturned ==
    /\ processor = "textract"
    /\ LabelledCandidates(ocr_text) = {}
    /\ info_text.cpf # <<>>
    /\ Cardinality(Occurrences(ocr_text, DigitsLeft(info_text.cpf))) = 1
    /\ \A o \in Occurrences(ocr_text, DigitsLeft(info_text.cpf)) :
           HasToken(WindowAt(ocr_text, o), nis_indicators)

----------------------------------------------------------------------------
(* Claims about the welfare numbers of both sources (SpecDoc)               *)

\* the 11-digit numbers the key-value pairs hold under a NIS, PIS or PASEP key
FormWelfareNumbers(pairs) ==
    { DigitsLeft(pairs[j][2]) :
          j \in { i \in 1..Len(pairs) :
                      /\ HasToken(Lower(pairs[i][1]), nis_indicators)
                      /\ Len(DigitsLeft(pairs[i][2])) = 11 } }

\* C24: an 11-digit number that the text or the key-value pairs label as
\* NIS, PIS or PASEP is never the cpf process_document returns, from
\* whichever of the two sources the cpf was taken.
C24_OneExclusionSetForBothSources ==
    (processor = "textract" /\ result.sucesso) =>
        DigitsLeft(result.cpf) \notin
            (WelfareNumbers(ocr_text) \cup FormWelfareNumbers(form_pairs))

\* each extraction leaves out the welfare numbers of its own source
X_C24_ExcludedWithinEachSource ==
    (processor = "textract" /\ result.sucesso) =>
        /\ DigitsLeft(info_text.cpf) \notin WelfareNumbers(ocr_text)
        /\ DigitsLeft(info_forms.cpf) \notin FormWelfareNumbers(form_pairs)

\* a number the text labels as welfare number was returned from a CPF key
X_C24_TextWelfareFromForms ==
    /\ processor = "textract"
    /\ result.cpf # <<>>
    /\ result.cpf = info_forms.cpf
    /\ DigitsLeft(result.cpf) \in WelfareNumbers(ocr_text)

\* a number under a welfare key was returned from a CPF label of the text
X_C24_FormsWelfareFromText ==
    /\ processor = "textract"
    /\ result.cpf # <<>>
    /\ info_forms.cpf = <<>>
    /\ result.cpf = info_text.cpf
    /\ DigitsLeft(result.cpf) \in FormWelfareNumbers(form_pairs)

----------------------------------------------------------------------------
(* remove_duplicate_faces on lists of regions (SpecDedup)                   *)

\* how many regions a list holds at most
MaxFaces == 3

\* the regions of a list: three in a row, each overlapping the next by more
\* than half and the first overlapping the third by less; one apart from
\* them; a small one inside the first
DedupRects ==
    { Rect(0, 0, 10, 10), Rect(4, 0, 10, 10), Rect(8, 0, 10, 10), Rect(12, 12, 6, 6),
      Rect(2, 2, 4, 4) }

InitDedup ==
    /\ InitCPFIdle /\ InitDocIdle /\ InitPhotoIdle /\ InitTypeIdle /\ InitRunIdle
    /\ InitFaceIdle /\ InitCleanIdle /\ InitEmbedIdle /\ IdleButDedup
    /\ faces_in = <<>>
    /\ unique_out = NotDeduped

\* all_faces.append((x, y, w, h, method_name))
AddDetected ==
    /\ unique_out = NotDeduped
    /\ Len(faces_in) < MaxFaces
    /\ \E r \in DedupRects, k \in 1..Len(Cascades) :
           faces_in' = Append(faces_in, [rect |-> r, method |-> Cascades[k]])
    /\ UNCHANGED <<unique_out, earlyVars, lateButDedup>>

\* unique_faces = self.remove_duplicate_faces(all_faces), and the function
\* applied to what it returned
RemoveDuplicates ==
    /\ unique_out = NotDeduped
    /\ unique_out' = [state |-> "returned",
                      faces |-> remove_duplicate_faces(faces_in),
                      again |-> remove_duplicate_faces(remove_duplicate_faces(faces_in))]
    /\ UNCHANGED <<faces_in, earlyVars, lateButDedup>>

NextDedup == AddDetected \/ RemoveDuplicates

SpecDedup == InitDedup /\ [][NextDedup]_vars

\* the area two regions share
Shared(a, b) ==
    LET left == IF a.x > b.x THEN a.x ELSE b.x
        right == IF a.x + a.w < b.x + b.w THEN a.x + a.w ELSE b.x + b.w
        top == IF a.y > b.y THEN a.y ELSE b.y
        bottom == IF a.y + a.h < b.y + b.h THEN a.y + a.h ELSE b.y + b.h
    IN  IF right > left /\ bottom > top THEN (right - left) * (bottom - top) ELSE 0

\* two regions share more than 50% of the smaller of them
SameFace(a, b) ==
    2 * Shared(a, b) > (IF a.w * a.h < b.w * b.h THEN a.w * a.h ELSE b.w * b.h)

\* region k of the list is kept: no kept region before it is the same face
RECURSIVE Kept(_, _)
Kept(faces, k) ==
    \A j \in 1..(k - 1) : Kept(faces, j) => ~SameFace(faces[j].rect, faces[k].rect)

\* the regions of the list that are kept, in the order of the list
RECURSIVE KeptFrom(_, _)
KeptFrom(faces, k) ==
    IF k > Len(faces) THEN <<>>
    ELSE (IF Kept(faces, k) THEN <<faces[k]>> ELSE <<>>) \o KeptFrom(faces, k + 1)

\* C25: remove_duplicate_faces returns, in input order, the regions that
\* share no more than 50% of the smaller area with a region kept before
\* them; the first region is always kept, no two regions returned share
\* more than that, and applying the function to what it returned changes
\* nothing.
C25_FirstSeenOfEachFaceKept ==
    unique_out # NotDeduped =>
        /\ unique_out.faces = KeptFrom(faces_in, 1)
        /\ faces_in # <<>> => unique_out.faces[1] = faces_in[1]
        /\ \A i, j \in 1..Len(unique_out.faces) :
               i # j => ~SameFace(unique_out.faces[i].rect, unique_out.faces[j].rect)
        /\ unique_out.again = unique_out.faces

\* C25 witness: of three regions in a row the second is dropped for the
\* first, and the third, which shares more than half with the dropped one
\* and less with the first, is kept
C25_Witness ==
    /\ unique_out # NotDeduped
    /\ Len(faces_in) = 3
    /\ SameFace(faces_in[1].rect, faces_in[2].rect)
    /\ SameFace(faces_in[2].rect, faces_in[3].rect)
    /\ ~SameFace(faces_in[1].rect, faces_in[3].rect)
    /\ unique_out.faces = <<faces_in[1], faces_in[3]>>

\* a small region inside a larger one kept before it was dropped
X_C25_SmallInsideLargeDropped ==
    /\ unique_out # NotDeduped
    /\ Len(faces_in) = 2
    /\ faces_in[1].rect.w * faces_in[1].rect.h > 4 * faces_in[2].rect.w * faces_in[2].rect.h
    /\ Len(unique_out.faces) = 1


\* ---------------------------------------------------------------------------
\* crop_face_3x4: the rectangle cut out around a detected region
\* (document_processor_advanced_complete.py and document_processor_optimized.py)
\* ---------------------------------------------------------------------------

\* the largest image side drawn
MaxSide == 12

Larger(a, b) == IF a >= b THEN a ELSE b

Smaller(a, b) == IF a <= b THEN a ELSE b

\* the function returns None: the slice is empty
NoCrop == [state |-> "returned", cut |-> "none"]

\* int(h * 0.3), int(h * 0.2), int(w * 0.1), int(n * 0.75) and int(n / 0.75)
\* truncate a non-negative float: 3h div 10, h div 5, w div 10, 3n div 4 and
\* 4n div 3 on the sizes drawn; expanded_w / expanded_h > 0.75 is
\* 4 * expanded_w > 3 * expanded_h
crop_face_3x4(img_width, img_height, x, y, w, h) ==
    LET top_margin == (3 * h) \div 10
        bottom_margin == h \div 5
        side_margin == w \div 10
        expanded_x == Larger(0, x - side_margin)
        expanded_y == Larger(0, y - top_margin)
        expanded_w == Smaller(img_width - expanded_x, w + 2 * side_margin)
        expanded_h == Smaller(img_height - expanded_y, h + top_margin + bottom_margin)
        too_wide == 4 * expanded_w > 3 * expanded_h
        new_width == (3 * expanded_h) \div 4
        new_height == (4 * expanded_w) \div 3
        fitted_x == IF too_wide THEN expanded_x + ((expanded_w - new_width) \div 2)
                                ELSE expanded_x
        fitted_y == IF too_wide THEN expanded_y
                                ELSE expanded_y + ((expanded_h - new_height) \div 2)
        fitted_w == IF too_wide THEN new_width ELSE expanded_w
        fitted_h == IF too_wide THEN expanded_h ELSE new_height
        final_x == Larger(0, fitted_x)
        final_y == Larger(0, fitted_y)
        final_w == Smaller(img_width - final_x, fitted_w)
        final_h == Smaller(img_height - final_y, fitted_h)
    IN  IF final_w * final_h > 0
        THEN [state |-> "returned", cut |-> "face",
              region |-> Rect(final_x, final_y, final_w, final_h)]
        ELSE NoCrop

\* an image of every size up to MaxSide, and every region of at least one
\* pixel each way that lies inside it
CropInputs ==
    { [img_width |-> iw, img_height |-> ih, face |-> Rect(x, y, w, h)] :
        <<iw, ih, x, y, w, h>> \in
            { t \in (1..MaxSide) \X (1..MaxSide) \X (0..MaxSide - 1) \X (0..MaxSide - 1)
                      \X (1..MaxSide) \X (1..MaxSide) :
                t[3] + t[5] <= t[1] /\ t[4] + t[6] <= t[2] } }

InitCrop ==
    /\ InitCPFIdle /\ InitDocIdle /\ InitPhotoIdle /\ InitTypeIdle /\ InitRunIdle
    /\ InitFaceIdle /\ InitCleanIdle /\ InitEmbedIdle /\ IdleButCrop
    /\ crop_in \in CropInputs
    /\ crop_out = NotCropped

CropFace ==
    /\ crop_out = NotCropped
    /\ crop_out' = crop_face_3x4(crop_in.img_width, crop_in.img_height,
                                 crop_in.face.x, crop_in.face.y,
                                 crop_in.face.w, crop_in.face.h)
    /\ UNCHANGED <<crop_in, earlyVars, lateButCrop>>

NextCrop == CropFace

SpecCrop == InitCrop /\ [][NextCrop]_vars

InsideImage(r, iw, ih) ==
    /\ 0 <= r.x /\ 0 <= r.y
    /\ r.x + r.w <= iw /\ r.y + r.h <= ih

ThreeByFour(r) ==
    \/ r.w = (3 * r.h) \div 4
    \/ r.h = (4 * r.w) \div 3

WellCut(out, inp) ==
    /\ out.cut = "face"
    /\ InsideImage(out.region, inp.img_width, inp.img_height)
    /\ out.region.w >= 1 /\ out.region.h >= 1
    /\ ThreeByFour(out.region)

X_C26_CutFromTwoRowsUp ==
    (crop_out # NotCropped /\ crop_in.face.h >= 2) => WellCut(crop_out, crop_in)

\* what does hold: a region one pixel high is always given up
X_C26_OneRowAlwaysNone ==
    (crop_out # NotCropped /\ crop_in.face.h = 1) => crop_out = NoCrop

\* reached: a region one pixel high, ten wide, in a 12 x 12 image, returns None
X_C26_OneRowDiscarded ==
    /\ crop_out = NoCrop
    /\ crop_in.img_width = 12 /\ crop_in.img_height = 12
    /\ crop_in.face = Rect(1, 5, 10, 1)

\* reached: a region against the image border is narrowed and cut
X_C26_NarrowedAtBorder ==
    /\ crop_out # NotCropped /\ crop_out # NoCrop
    /\ crop_in.face.x = 0 /\ crop_in.face.w = crop_in.img_width
    /\ crop_in.face.h >= 10
    /\ crop_out.region.w < crop_in.face.w


\* ---------------------------------------------------------------------------
\* sanitize_result and /upload (app_improved.py, app_real.py)
\* A dictionary is a function from its keys to its values; the values are
\* written as jsonify serialises them.
\* ---------------------------------------------------------------------------

\* the text 'Nao encontrado' of the source, without its accent
NotFoundText == "Nao encontrado"

Put(d, key, value) ==
    [k \in (DOMAIN d) \cup {key} |-> IF k = key THEN value ELSE d[k]]

\* if key in sanitized and sanitized[key] and sanitized[key] != 'Nao encontrado':
\*     sanitized[key_original] = sanitized[key]; sanitized[key] = placeholder
replaced(d, key, key_original, placeholder) ==
    IF key \in DOMAIN d /\ d[key] # "" /\ d[key] # NotFoundText
    THEN Put(Put(d, key_original, d[key]), key, placeholder)
    ELSE d

\* app_real.py has no branch for rg
sanitize_result(app, res) ==
    LET named == replaced(res, "nome", "nome_original", "<NOME_COMPLETO>")
        taxed == replaced(named, "cpf", "cpf_original", "<XXX.XXX.XXX-XX>")
    IN  IF app = "improved"
        THEN replaced(taxed, "rg", "rg_original", "<XX.XXX.XXX-X>")
        ELSE taxed

UploadNames == {"", "MARIA SILVA", "JOSE SOUZA"}

UploadCpfs == {"", "529.982.247-25", "111.444.777-35"}

UploadRgs == {"", "12.345.678-9", "98.765.432-1"}

\* what process_document returns: the result of a processed document, or the
\* error dictionary
ProcessResults ==
    { [tipo_documento |-> t, nome |-> n, cpf |-> c, rg |-> r,
       cpf_valido |-> IF c = "" THEN "false" ELSE "true", sucesso |-> "true"] :
        t \in {"RG", "CNH"}, n \in UploadNames, c \in UploadCpfs, r \in UploadRgs }
    \cup { [erro |-> "Nao foi possivel extrair texto do PDF"] }

UploadIds == {"id-1", "id-2"}

InitUpload ==
    /\ InitCPFIdle /\ InitDocIdle /\ InitPhotoIdle /\ InitTypeIdle /\ InitRunIdle
    /\ InitFaceIdle /\ InitCleanIdle /\ InitEmbedIdle /\ IdleButUpload
    /\ up_app \in {"improved", "real"}
    /\ up_result \in [Requests -> ProcessResults]
    /\ up_shown = [q \in Requests |-> NotSent]

\* upload_file from the call of process_document on: the result is sanitized,
\* the request's own entries are added, and the dictionary is sent as JSON
upload_file(q) ==
    /\ up_shown[q] = NotSent
    /\ \E unique_id \in UploadIds :
        LET display_result == sanitize_result(up_app, up_result[q])
            with_id == Put(display_result, "upload_id", unique_id)
            with_type == Put(with_id, "processing_type",
                             IF up_app = "improved" THEN "improved_textract" ELSE "real")
            with_version == IF up_app = "improved"
                            THEN Put(Put(with_type, "processor_version", "improved"),
                                     "has_structured_data", "false")
                            ELSE with_type
        IN  up_shown' = [up_shown EXCEPT ![q] =
                            [state |-> "sent", sanitized |-> display_result,
                             json |-> with_version]]
    /\ UNCHANGED <<up_app, up_result, earlyVars, lateButUpload>>

NextUpload == \E q \in Requests : upload_file(q)

SpecUpload == InitUpload /\ [][NextUpload]_vars

SensitiveKeys == {"nome", "cpf", "rg"}

\* two results with the same keys that differ at most in nome, cpf and rg,
\* all three non-empty in both
DifferOnlyInSensitive(r1, r2) ==
    /\ DOMAIN r1 = DOMAIN r2
    /\ SensitiveKeys \subseteq DOMAIN r1
    /\ \A k \in DOMAIN r1 : k \notin SensitiveKeys => r1[k] = r2[k]
    /\ \A k \in SensitiveKeys : r1[k] # "" /\ r2[k] # ""

Leaks(json, res) ==
    \E k \in DOMAIN json : \E s \in SensitiveKeys : json[k] = res[s]

BothSent == \A q \in Requests : up_shown[q] # NotSent

\* C27: for two results that differ only in the non-empty values of nome, cpf
\* and rg, sanitize_result returns the same dictionary, and no entry of the
\* JSON sent by /upload has the original name, CPF or RG as its value.
C27_SanitizedHidesNameCpfRg ==
    (BothSent /\ DifferOnlyInSensitive(up_result["a"], up_result["b"]))
        => /\ up_shown["a"].sanitized = up_shown["b"].sanitized
           /\ \A q \in Requests : ~ Leaks(up_shown[q].json, up_result[q])

\* what does hold: the entries nome and cpf (and rg in app_improved.py) of the
\* JSON are the placeholders whenever the result had a value there
X_C27_PlaceholdersUnderTheKeys ==
    \A q \in Requests :
        (up_shown[q] # NotSent /\ "nome" \in DOMAIN up_result[q]) =>
            /\ up_result[q].nome # "" => up_shown[q].json.nome = "<NOME_COMPLETO>"
            /\ up_result[q].cpf # "" => up_shown[q].json.cpf = "<XXX.XXX.XXX-XX>"
            /\ (up_result[q].rg # "" /\ up_app = "improved")
                   => up_shown[q].json.rg = "<XX.XXX.XXX-X>"

\* reached: the JSON sent by app_improved.py carries the name, the CPF and the
\* RG of the document under nome_original, cpf_original and rg_original
X_C27_OriginalsSent ==
    /\ up_app = "improved"
    /\ up_shown["a"] # NotSent
    /\ "nome" \in DOMAIN up_result["a"]
    /\ up_result["a"].nome = "MARIA SILVA"
    /\ up_result["a"].cpf = "529.982.247-25"
    /\ up_result["a"].rg = "12.345.678-9"
    /\ up_shown["a"].json.nome_original = "MARIA SILVA"
    /\ up_shown["a"].json.cpf_original = "529.982.247-25"
    /\ up_shown["a"].json.rg_original = "12.345.678-9"

\* reached: app_real.py sends the RG itself under rg
X_C27_RealSendsRg ==
    /\ up_app = "real"
    /\ up_shown["b"] # NotSent
    /\ "rg" \in DOMAIN up_result["b"]
    /\ up_result["b"].rg = "98.765.432-1"
    /\ up_shown["b"].json.rg = "98.765.432-1"


----------------------------------------------------------------------------
(* The shape of every cpf DocumentProcessorTextract produces (SpecDoc) *)

\* empty, or ddd.ddd.ddd-dd with digits that pass the validator
EmptyOrFormattedValid(c) ==
    \/ c = <<>>
    \/ /\ Len(c) = 14
       /\ Len(DigitsLeft(c)) = 11
       /\ c = Punctuated(DigitsLeft(c))
       /\ Acceptable(DigitsLeft(c))

\* C28: every cpf of DocumentProcessorTextract, from the text, from the
\* key-value pairs and in the merged result, is empty or of the form
\* ddd.ddd.ddd-dd with 11 digits that pass validate_cpf; in a successful
\* result cpf_valido is true exactly when cpf is not empty.
C28_CpfEmptyOrFormattedValid ==
    processor = "textract" =>
        /\ EmptyOrFormattedValid(info_text.cpf)
        /\ EmptyOrFormattedValid(info_forms.cpf)
        /\ result.sucesso =>
               /\ EmptyOrFormattedValid(result.cpf)
               /\ result.cpf_valido <=> result.cpf # <<>>

\* C28 witness: the text and the pairs each gave a formatted cpf, two
\* different ones, and the successful result reports its cpf valid
C28_Witness ==
    /\ processor = "textract"
    /\ result.sucesso
    /\ Len(info_text.cpf) = 14
    /\ Len(info_forms.cpf) = 14
    /\ info_text.cpf # info_forms.cpf
    /\ result.cpf_valido

\* reached: a successful result without cpf, after a pair under a CPF key
\* failed validation, reports cpf_valido false
X_C28_EmptyNotValid ==
    /\ processor = "textract"
    /\ result.sucesso
    /\ TaxPairs(form_pairs) # {}
    /\ result.cpf = <<>>
    /\ ~result.cpf_valido


----------------------------------------------------------------------------
(* detect_best_photo, image by image (SpecBest)                             *)
(* bkp/document_processor_optimized.py, document_processor_improved_crop.py *)

\* the longest list of images gone through
MaxSeen == 3

\* the images of a list: without a face, with one face the crop gives or
\* does not give, with two faces of which the larger is not given
BestImageChoices ==
    { [area |-> 100, faces |-> <<>>, detect_raises |-> FALSE],
      [area |-> 100, faces |-> <<Face(10, "frontal_default", 0, TRUE)>>,
       detect_raises |-> FALSE],
      [area |-> 100, faces |-> <<Face(20, "frontal_default", 0, TRUE)>>,
       detect_raises |-> FALSE],
      [area |-> 100, faces |-> <<Face(40, "frontal_default", 0, TRUE)>>,
       detect_raises |-> FALSE],
      [area |-> 100, faces |-> <<Face(40, "frontal_default", 0, FALSE)>>,
       detect_raises |-> FALSE],
      [area |-> 100, faces |-> <<Face(10, "frontal_default", 0, TRUE),
                                 Face(30, "frontal_default", 0, FALSE)>>,
       detect_raises |-> FALSE] }

InitBest ==
    /\ InitCPFIdle /\ InitDocIdle /\ InitPhotoIdle /\ InitTypeIdle /\ InitRunIdle
    /\ InitFaceIdle /\ InitCleanIdle /\ InitEmbedIdle /\ IdleButBest
    /\ bp_images = <<>>
    /\ bp_photo = NoImage
    /\ bp_score = 0
    /\ bp_returned = NotReturned

\* one turn of "for img in images"
NextImage ==
    /\ bp_returned = NotReturned
    /\ Len(bp_images) < MaxSeen
    /\ \E c \in BestImageChoices :
        LET img == [id |-> <<"embedded", Len(bp_images) + 1>>, area |-> c.area,
                    faces |-> c.faces, detect_raises |-> c.detect_raises]
            after == loop_body(img, bp_photo, bp_score)
        IN  /\ bp_images' = Append(bp_images, img)
            /\ bp_photo' = after.photo
            /\ bp_score' = after.score
    /\ UNCHANGED <<bp_returned, earlyVars, lateButBest>>

\* return best_photo (return None for an empty list)
ReturnBest ==
    /\ bp_returned = NotReturned
    /\ bp_returned' = [state |-> "returned", photo |-> bp_photo]
    /\ UNCHANGED <<bp_images, bp_photo, bp_score, earlyVars, lateButBest>>

NextBest == NextImage \/ ReturnBest

SpecBest == InitBest /\ [][NextBest]_vars

\* the images whose largest face the crop gives
Croppable ==
    { i \in 1..Len(bp_images) :
        /\ bp_images[i].faces # <<>>
        /\ bp_images[i].faces[largest_face(bp_images[i].faces)].crops }

LargestArea(i) == bp_images[i].faces[largest_face(bp_images[i].faces)].area

\* the first of the images whose largest face is the largest that can be cut
BestCroppable ==
    CHOOSE i \in Croppable :
        /\ \A j \in Croppable : LargestArea(j) <= LargestArea(i)
        /\ \A j \in Croppable : j < i => LargestArea(j) < LargestArea(i)

SameFaceHeld ==
    /\ bp_photo = (IF Croppable = {} THEN NoImage
                   ELSE [src |-> "face", of |-> bp_images[BestCroppable].id,
                         region |-> largest_face(bp_images[BestCroppable].faces)])
    /\ Croppable # {} => bp_score = LargestArea(BestCroppable)
    /\ bp_returned # NotReturned => bp_returned.photo = bp_photo

\* C29: after any sequence of images, best_photo and best_score of
\* detect_best_photo are of the same face, the largest of the images' largest
\* faces that crop_face_3x4 gives (the first image on ties), and the photo is
\* None only when no image has a face that can be cut.
C29_BestPhotoAndScoreOfOneFace == SameFaceHeld

\* what does hold: as long as crop_face_3x4 gave every face it was asked for,
\* photo and score are of the first largest face
X_C29_HoldsWhileEveryCropGiven ==
    (\A i \in 1..Len(bp_images) : bp_images[i].faces # <<>> => i \in Croppable)
        => SameFaceHeld

\* reached: the photo held is of a smaller face than the score
X_C29_ScoreOfAnotherFace ==
    /\ bp_photo # NoImage
    /\ \E i \in 1..Len(bp_images) :
           /\ bp_photo.of = bp_images[i].id
           /\ bp_score > bp_images[i].faces[bp_photo.region].area

\* reached: None is returned although a later image has a face that can be cut
X_C29_NoneThoughCroppable ==
    /\ bp_returned # NotReturned
    /\ bp_returned.photo = NoImage
    /\ Croppable # {}

\* reached: a larger face that can be cut is passed over for a smaller one
X_C29_SmallerKept ==
    /\ bp_returned # NotReturned
    /\ bp_returned.photo # NoImage
    /\ Croppable # {}
    /\ bp_returned.photo.of # bp_images[BestCroppable].id


----------------------------------------------------------------------------
(* extract_text_robust and the start of process_document of                 *)
(* document_processor_robust.py (SpecRobust)                                *)
(* A text is the strategy it came from and the length of its stripped form; *)
(* text.lower() changes neither.                                            *)

\* len(text.strip()) > 50 for the native text and for the OCR of the pages
PageTextThreshold == 50

\* len(text.strip()) > 20 for the OCR of the embedded images
ImageTextThreshold == 20

\* the stripped lengths a strategy may come back with: nothing, and the
\* lengths at and just above the two thresholds
StrippedLengths ==
    {0, ImageTextThreshold, ImageTextThreshold + 1, PageTextThreshold,
     PageTextThreshold + 1}

\* the empty string
EmptyString == [src |-> "none", len |-> 0]

\* what a strategy returns: text.lower() if text.strip() else ""
strategy_text(src, n) == IF n = 0 THEN EmptyString ELSE [src |-> src, len |-> n]

\* text and len(text.strip()) >= threshold
significant_from(text, threshold) == text # EmptyString /\ text.len >= threshold

\* text and len(text.strip()) > threshold
significant(text, threshold) == text # EmptyString /\ text.len > threshold

\* a file that is missing cannot be opened; a PDF that cannot be opened has
\* neither text nor images; without a text layer get_text gives nothing, and
\* without images there is nothing to read from them; a strategy that raises
\* gives nothing either
RobustPdfs ==
    { d \in [exists : BOOLEAN, valid : BOOLEAN, has_text : BOOLEAN, has_images : BOOLEAN,
             pymupdf : StrippedLengths, ocr : StrippedLengths,
             from_images : StrippedLengths] :
        /\ ~d.exists => ~d.valid
        /\ ~d.valid => (~d.has_text /\ ~d.has_images /\ d.ocr = 0)
        /\ ~d.has_text => d.pymupdf = 0
        /\ ~d.has_images => d.from_images = 0 }

InitRobust ==
    /\ InitCPFIdle /\ InitDocIdle /\ InitPhotoIdle /\ InitTypeIdle /\ InitRunIdle
    /\ InitFaceIdle /\ InitCleanIdle /\ InitEmbedIdle /\ IdleButRobust
    /\ rb_pdf \in RobustPdfs
    /\ rb_pc = "start"
    /\ rb_calls = <<>>
    /\ rb_text = NoTextYet
    /\ rb_result = NoResultYet

RobustFrame == UNCHANGED <<rb_pdf, earlyVars, lateButRobust>>

Returned(text) == [state |-> "returned", text |-> text]

\* process_document up to and with check_pdf_validity: a missing file ends the
\* run at once, an invalid PDF makes extract_text_robust return ""
CheckPdfValidity ==
    /\ rb_pc = "start"
    /\ IF ~rb_pdf.exists
       THEN /\ rb_pc' = "done"
            /\ rb_result' = [state |-> "returned", sucesso |-> FALSE]
            /\ UNCHANGED rb_text
       ELSE IF ~rb_pdf.valid
       THEN /\ rb_pc' = "extracted"
            /\ rb_text' = Returned(EmptyString)
            /\ UNCHANGED rb_result
       ELSE /\ rb_pc' = (IF rb_pdf.has_text THEN "pymupdf" ELSE "ocr")
            /\ UNCHANGED <<rb_text, rb_result>>
    /\ UNCHANGED rb_calls
    /\ RobustFrame

\* "Estrategia 1": if pdf_info['has_text']: text = self.extract_text_pymupdf
ExtractTextPymupdf ==
    /\ rb_pc = "pymupdf"
    /\ rb_calls' = Append(rb_calls, "pymupdf")
    /\ LET text == strategy_text("pymupdf", rb_pdf.pymupdf)
       IN  IF significant(text, PageTextThreshold)
           THEN rb_pc' = "extracted" /\ rb_text' = Returned(text)
           ELSE rb_pc' = "ocr" /\ UNCHANGED rb_text
    /\ UNCHANGED rb_result
    /\ RobustFrame

\* "Estrategia 2": text = self.extract_text_ocr; without images the function
\* goes on to return ""
ExtractTextOcr ==
    /\ rb_pc = "ocr"
    /\ rb_calls' = Append(rb_calls, "ocr")
    /\ LET text == strategy_text("ocr", rb_pdf.ocr)
       IN  IF significant(text, PageTextThreshold)
           THEN rb_pc' = "extracted" /\ rb_text' = Returned(text)
           ELSE IF rb_pdf.has_images
           THEN rb_pc' = "from_images" /\ UNCHANGED rb_text
           ELSE rb_pc' = "extracted" /\ rb_text' = Returned(EmptyString)
    /\ UNCHANGED rb_result
    /\ RobustFrame

\* "Estrategia 3": if pdf_info['has_images']: text =
\* self.extract_text_from_images; then return ""
ExtractTextFromImages ==
    /\ rb_pc = "from_images"
    /\ rb_calls' = Append(rb_calls, "from_images")
    /\ LET text == strategy_text("from_images", rb_pdf.from_images)
       IN  rb_text' = Returned(IF significant(text, ImageTextThreshold)
                               THEN text ELSE EmptyString)
    /\ rb_pc' = "extracted"
    /\ UNCHANGED rb_result
    /\ RobustFrame

\* process_document after extract_text_robust: if not text: return
\* {"erro": ..., "sucesso": False}
RobustAfterText ==
    /\ rb_pc = "extracted"
    /\ rb_pc' = "done"
    /\ rb_result' = [state |-> "returned", sucesso |-> rb_text.text # EmptyString]
    /\ UNCHANGED <<rb_calls, rb_text>>
    /\ RobustFrame

NextRobust ==
    \/ CheckPdfValidity
    \/ ExtractTextPymupdf
    \/ ExtractTextOcr
    \/ ExtractTextFromImages
    \/ RobustAfterText

SpecRobust == InitRobust /\ [][NextRobust]_vars

\* the strategies the PDF allows, in their order
Allowed ==
    (IF rb_pdf.exists /\ rb_pdf.valid /\ rb_pdf.has_text THEN <<"pymupdf">> ELSE <<>>)
        \o (IF rb_pdf.exists /\ rb_pdf.valid THEN <<"ocr">> ELSE <<>>)
        \o (IF rb_pdf.exists /\ rb_pdf.valid /\ rb_pdf.has_images
            THEN <<"from_images">> ELSE <<>>)

\* strategy s reads more than its threshold from the PDF
Succeeds(s) ==
    CASE s = "pymupdf" -> rb_pdf.pymupdf > PageTextThreshold
      [] s = "ocr" -> rb_pdf.ocr > PageTextThreshold
      [] s = "from_images" -> rb_pdf.from_images > ImageTextThreshold

LengthOf(s) ==
    CASE s = "pymupdf" -> rb_pdf.pymupdf
      [] s = "ocr" -> rb_pdf.ocr
      [] s = "from_images" -> rb_pdf.from_images

\* the places of Allowed whose strategy succeeds
Winners == { k \in 1..Len(Allowed) : Succeeds(Allowed[k]) }

FirstWinner == CHOOSE k \in Winners : \A j \in Winners : k <= j

\* C30: extract_text_robust invokes its strategies strictly in the order
\* native text, OCR of the pages, OCR of the embedded images, leaving out the
\* native one without a text layer and the last one without images, and none
\* for an invalid PDF; it returns the text of the first strategy that reads
\* more than 50, 50 and 20 characters and invokes none after it; it returns
\* the empty string when all fail, and process_document then fails.
C30_StrategiesInOrderFirstSuccessReturned ==
    /\ Len(rb_calls) <= Len(Allowed)
    /\ \A k \in 1..Len(rb_calls) : rb_calls[k] = Allowed[k]
    /\ \A k \in 1..Len(rb_calls) : \A j \in 1..(k - 1) : ~Succeeds(rb_calls[j])
    /\ rb_text # NoTextYet =>
           IF Winners = {}
           THEN rb_text.text = EmptyString /\ rb_calls = Allowed
           ELSE /\ rb_text.text.src = Allowed[FirstWinner]
                /\ rb_text.text.len = LengthOf(Allowed[FirstWinner])
                /\ Len(rb_calls) = FirstWinner
    /\ (rb_result # NoResultYet /\ rb_text # NoTextYet) =>
           (rb_result.sucesso <=> rb_text.text # EmptyString)

\* C30 witness: the native text was too short, the OCR of the pages gave the
\* text, the images were never read, and the run went on
C30_Witness ==
    /\ rb_pdf.has_images
    /\ rb_pdf.from_images > 20
    /\ rb_calls = <<"pymupdf", "ocr">>
    /\ rb_text # NoTextYet
    /\ rb_text.text.src = "ocr"
    /\ rb_result # NoResultYet
    /\ rb_result.sucesso

\* reached: every strategy failed, with texts at the thresholds, and
\* process_document returned sucesso False
X_C30_AllFailedAtThresholds ==
    /\ rb_pdf.pymupdf = 50 /\ rb_pdf.ocr = 50 /\ rb_pdf.from_images = 20
    /\ rb_calls = <<"pymupdf", "ocr", "from_images">>
    /\ rb_text = Returned(EmptyString)
    /\ rb_result # NoResultYet
    /\ ~rb_result.sucesso

\* reached: an invalid PDF, no strategy invoked, the empty string returned
X_C30_InvalidNoStrategy ==
    /\ rb_pdf.exists /\ ~rb_pdf.valid
    /\ rb_calls = <<>>
    /\ rb_text = Returned(EmptyString)
    /\ rb_pc = "done"

====
